---- MODULE Spec2Model ----
(***************************************************************************)
(* Model of the adaptive crawler of src/backend/scraper/script.py:         *)
(* crawl_until_complete with its frontier (queue + visited), the page      *)
(* budget, the oracle call, update_output / is_output_complete.            *)
(*                                                                         *)
(* URLs are canonical URLs of the seed's domain, abstracted to 0..NumUrls-1 *)
(* with the seed as 0.  JSON values are written as their JSON text.  An    *)
(* oracle response is a sequence of lexical tokens (whitespace, prose,     *)
(* fence markers, one JSON document), so that the cleaning done by         *)
(* update_output acts on its shape.                                        *)
(***************************************************************************)
EXTENDS Integers, Sequences, FiniteSets, TLC

\* ---------------------------------------------------------------- bounds
\* number of distinct canonical URLs of the crawled site
NumUrls == 5
\* largest number of distinct links one page exposes
MaxLinks == 2

\* ------------------------------------------------------ program constants
\* script.py:55-56 set MAX_PAGES = 50 and MAX_DEPTH = 3; the model keeps both
\* budgets small enough for a site of NumUrls pages to reach them: a chain of
\* MAX_DEPTH + 1 pages still leaves page budget for the entry below it.
MAX_PAGES == 4
MAX_DEPTH == 2

\* the canonical URLs of the seed's domain, the seed being 0
Urls == 0 .. (NumUrls - 1)
Seed == 0
\* the canonical URL of another domain
OffSite == NumUrls
\* the address an anchor with a mailto: href resolves to
MailTo == NumUrls + 1
AllUrls == Urls \cup {OffSite, MailTo}

\* REQUIRED_FIELDS, script.py:58-62 (names separated by spaces)
REQUIRED_FIELDS ==
    { "logo", "name", "company description", "summary", "status",
      "website url", "founding year", "startup category", "founding team size",
      "magic accredited", "employees", "location", "founder" }

\* the field names written in the prompt of gemini_extract_fields,
\* script.py:137-163 (names separated by underscores)
PromptFields ==
    { "logo", "name", "company_description", "summary", "status",
      "website_url", "founding_year", "startup_category", "founding_team_size",
      "magic_accredited", "employees", "location", "founder" }

\* ------------------------------------------------------------ JSON values
JNull == "null"
JEmptyStr == "\"\""
JEmptyList == "[]"
JEmptyObj == "{}"
JFalse == "false"
JZero == "0"

\* Python truth value of a decoded JSON value: None, "", [], {}, False and 0
\* are falsy, everything else is truthy (the test: not output[key]).
Truthy(v) == v \notin {JNull, JEmptyStr, JEmptyList, JEmptyObj, JFalse, JZero}

\* the module-level dictionary `output = {}`
EmptyDict == [k \in {} |-> JNull]

\* ------------------------------------------------- oracle response texts
WS == "ws"
PROSE == "prose"
\* the marker that opens a json fence (three backticks followed by json)
FENCE_JSON == "fence_json"
\* the bare fence marker (three backticks)
FENCE == "fence"

\* The JSON documents an oracle answer may carry, by name.
ObjectDocs == { "J_nameA", "J_nameB_summaryS", "J_required", "J_prompt",
                "J_falsy", "J_truthy", "J_empties", "J_required_falsy",
                "J_extra" }
ArrayDocs == { "J_array" }
JsonDocs == ObjectDocs \cup ArrayDocs

\* the decoded object of a document
DocItems(d) ==
    CASE d = "J_nameA" -> [k \in {"name"} |-> "\"A\""]
      [] d = "J_nameB_summaryS" ->
            [k \in {"name", "summary"} |-> IF k = "name" THEN "\"B\"" ELSE "\"S\""]
      [] d = "J_required" -> [k \in REQUIRED_FIELDS |-> "\"R\""]
      [] d = "J_prompt" -> [k \in PromptFields |-> "\"P\""]
      [] d = "J_falsy" ->
            [k \in {"status", "magic accredited"} |-> IF k = "status" THEN JZero ELSE JFalse]
      [] d = "J_truthy" ->
            [k \in {"status", "magic accredited"} |-> IF k = "status" THEN "1" ELSE "true"]
      [] d = "J_empties" ->
            [k \in {"name", "summary", "employees"} |->
                IF k = "name" THEN JNull ELSE IF k = "summary" THEN JEmptyStr ELSE JEmptyList]
      [] d = "J_required_falsy" ->
            [k \in REQUIRED_FIELDS |->
                IF k = "status" THEN JZero
                ELSE IF k = "magic accredited" THEN JFalse ELSE "\"R\""]
      [] d = "J_extra" -> [k \in {"twitter_handle"} |-> "\"X\""]
      [] OTHER -> EmptyDict

\* the ways an oracle wraps the document j in markdown fencing: a json
\* fence or a bare fence, alone or with prose before and after the block
FenceWrappings(j) ==
    { <<FENCE_JSON, WS, j, WS, FENCE>>,
      <<FENCE, WS, j, WS, FENCE>>,
      <<PROSE, WS, FENCE_JSON, WS, j, WS, FENCE, WS, PROSE>>,
      <<PROSE, WS, FENCE, WS, j, WS, FENCE, WS, PROSE>> }

\* a document with a fence marker on one side only
HalfFenced(j) == { <<FENCE_JSON, WS, j>>, <<j, WS, FENCE>> }

\* the texts the oracle may answer with (response.text)
ResponseTexts ==
    { <<d>> : d \in JsonDocs }
    \cup FenceWrappings("J_nameB_summaryS")
    \cup FenceWrappings("J_nameA")
    \cup FenceWrappings("J_array")
    \cup HalfFenced("J_nameA")
    \cup { <<WS, "J_nameA", WS>>,
           <<"J_nameA", WS, "J_nameA">>,
           <<FENCE_JSON, WS, FENCE>>,
           <<PROSE>>,
           <<>> }

\* the answers the crawl is run against: no JSON, a partial record, a record
\* with every field of REQUIRED_FIELDS, a record with every field of the prompt
CrawlResponseTexts ==
    { <<PROSE>>, <<"J_nameA">>, <<"J_required">>, <<"J_prompt">> }

\* what one call of client.models.generate_content does: raise, or answer
OracleOutcomes ==
    { [raised |-> TRUE, text |-> <<>>] }
    \cup { [raised |-> FALSE, text |-> t] : t \in CrawlResponseTexts }

\* gemini_extract_fields, script.py:174-182: response.text, or None when the
\* call raised
gemini_extract_fields(o) ==
    IF o.raised THEN [isNone |-> TRUE, text |-> <<>>]
    ELSE [isNone |-> FALSE, text |-> o.text]

\* the test `if response:` of script.py:222 (None and "" are falsy)
ResponseTruthy(r) == ~r.isNone /\ r.text # <<>>

\* str.strip(): drop the whitespace at both ends
RECURSIVE LStrip(_)
LStrip(s) == IF s # <<>> /\ Head(s) = WS THEN LStrip(Tail(s)) ELSE s

RECURSIVE RStrip(_)
RStrip(s) ==
    IF s # <<>> /\ s[Len(s)] = WS THEN RStrip(SubSeq(s, 1, Len(s) - 1)) ELSE s

Strip(s) == RStrip(LStrip(s))

\* the text without its whitespace (json.loads skips the whitespace around
\* a document)
NoWs(text) == SelectSeq(text, LAMBDA tok : tok # WS)

\* str.removeprefix(p) / str.removesuffix(p) for a one-token marker
RemovePrefix(s, p) == IF s # <<>> /\ Head(s) = p THEN Tail(s) ELSE s

RemoveSuffix(s, p) ==
    IF s # <<>> /\ s[Len(s)] = p THEN SubSeq(s, 1, Len(s) - 1) ELSE s

\* mutant of Cleaned: a bare opening fence is removed as well
Cleaned_AnyFence(gemini_json) ==
    Strip(RemoveSuffix(RemovePrefix(RemovePrefix(Strip(gemini_json), FENCE_JSON), FENCE),
                       FENCE))

\* script.py:188
Cleaned(gemini_json) ==
    Strip(RemoveSuffix(RemovePrefix(Strip(gemini_json), FENCE_JSON), FENCE))

\* json.loads succeeds exactly on a text that is one JSON document
JsonLoadsOk(c) == Len(c) = 1 /\ c[1] \in JsonDocs

\* script.py:190-192: the loop over parsed.items()
MergeItems(out, parsed) ==
    [k \in (DOMAIN out) \cup (DOMAIN parsed) |->
        IF k \in DOMAIN parsed /\ (k \notin DOMAIN out \/ ~Truthy(out[k]))
        THEN parsed[k]
        ELSE out[k]]

\* update_output, script.py:184-196: the value of `output` after the call.
\* json.loads raising, or parsed.items() raising on a non-object, is caught
\* and leaves output as it was.
update_output(out, gemini_json) ==
    LET cleaned == Cleaned(gemini_json)
    IN  IF JsonLoadsOk(cleaned) /\ cleaned[1] \in ObjectDocs
        THEN MergeItems(out, DocItems(cleaned[1]))
        ELSE out

\* the try block of update_output raised and the handler of script.py:193-196
\* ran: json.loads rejected the cleaned text, or the document has no items()
ParseError(gemini_json) ==
    LET cleaned == Cleaned(gemini_json)
    IN  ~(JsonLoadsOk(cleaned) /\ cleaned[1] \in ObjectDocs)

\* is_output_complete, script.py:198-199
is_output_complete(out) ==
    \A key \in REQUIRED_FIELDS : key \in DOMAIN out /\ Truthy(out[key])

\* ------------------------------------------------------------------ URLs
\* A URL text is written scheme ":" ["//" netloc] tail, the tail being a
\* sequence of lexical tokens: "/" ";" "?" "#", plain words, and words that
\* are (an upper-case spelling of) a pattern of BAD_PATTERNS.
SLASH == "/"
SEMI == ";"
QMARK == "?"
HASH == "#"

\* BAD_PATTERNS, script.py:54
BAD_PATTERNS == { "calendar", "page=", "sort=", "session=", "filter=", "lang=", "utm_" }

Url(scheme, netloc, tail) == [scheme |-> scheme, netloc |-> netloc, tail |-> tail]

\* the schemes for which urllib splits ';' parameters off the path
\* (urllib.parse.uses_params, as far as the model's schemes go)
UsesParams == { "http", "https" }

\* str.find / str.rfind on a token sequence: 0 when the token is absent
FirstIndex(s, t) ==
    IF \E i \in 1 .. Len(s) : s[i] = t
    THEN CHOOSE i \in 1 .. Len(s) : s[i] = t /\ \A j \in 1 .. (i - 1) : s[j] # t
    ELSE 0

LastIndex(s, t) ==
    IF \E i \in 1 .. Len(s) : s[i] = t
    THEN CHOOSE i \in 1 .. Len(s) : s[i] = t /\ \A j \in (i + 1) .. Len(s) : s[j] # t
    ELSE 0

\* s[:i-1] and s[i+1:] around position i, or s and "" when i = 0
Before(s, i) == IF i = 0 THEN s ELSE SubSeq(s, 1, i - 1)
After(s, i) == IF i = 0 THEN <<>> ELSE SubSeq(s, i + 1, Len(s))

\* urllib.parse._splitparams: the ';' looked for is the first one of the last
\* path segment
SplitParamsIndex(path) ==
    LET ls == LastIndex(path, SLASH)
    IN  IF ls > 0
        THEN IF \E i \in ls .. Len(path) : path[i] = SEMI
             THEN CHOOSE i \in ls .. Len(path) :
                      path[i] = SEMI /\ \A j \in ls .. (i - 1) : path[j] # SEMI
             ELSE 0
        ELSE FirstIndex(path, SEMI)

\* urlparse, script.py:69: fragment split at the first '#', query at the
\* first '?', parameters by _splitparams
urlparse(u) ==
    LET f == FirstIndex(u.tail, HASH)
        noFrag == Before(u.tail, f)
        q == FirstIndex(noFrag, QMARK)
        noQuery == Before(noFrag, q)
        i == IF u.scheme \in UsesParams THEN SplitParamsIndex(noQuery) ELSE 0
    IN  [scheme |-> u.scheme, netloc |-> u.netloc,
         path |-> Before(noQuery, i), params |-> After(noQuery, i),
         query |-> After(noFrag, q), fragment |-> After(u.tail, f)]

\* urlunparse, script.py:71
urlunparse(scheme, netloc, path, params, query, fragment) ==
    Url(scheme, netloc,
        path
        \o (IF params # <<>> THEN <<SEMI>> \o params ELSE <<>>)
        \o (IF query # <<>> THEN <<QMARK>> \o query ELSE <<>>)
        \o (IF fragment # <<>> THEN <<HASH>> \o fragment ELSE <<>>))

\* str.rstrip('/')
RECURSIVE RStripSlash(_)
RStripSlash(s) ==
    IF s # <<>> /\ s[Len(s)] = SLASH THEN RStripSlash(SubSeq(s, 1, Len(s) - 1)) ELSE s

\* get_domain, script.py:65-66
get_domain(u) == urlparse(u).netloc

\* normalize_url, script.py:68-71
normalize_url(u) ==
    LET parsed == urlparse(u)
        clean_path == RStripSlash(parsed.path)
    IN  urlunparse(parsed.scheme, parsed.netloc, clean_path, <<>>, <<>>, <<>>)

\* mutant of is_internal_link: only the links that name the domain pass
is_internal_link_SameHostOnly(link, domain) == urlparse(link).netloc = domain

\* mutant of is_internal_link: the host is not compared
is_internal_link_AnyHost(link, domain) == TRUE

\* is_internal_link, script.py:73-75
is_internal_link(link, domain) ==
    LET parsed == urlparse(link)
    IN  parsed.netloc = "" \/ parsed.netloc = domain

\* str.lower() of a token
Lower(tok) ==
    CASE tok = "UTM_" -> "utm_"
      [] tok = "PAGE=" -> "page="
      [] tok = "Calendar" -> "calendar"
      [] OTHER -> tok

\* the text of a URL as one token sequence
UrlText(u) == <<u.scheme, u.netloc>> \o u.tail

\* p in url, for a text whose tokens are words
Contains(text, p) == \E i \in 1 .. Len(text) : text[i] = p

\* mutant of is_valid_url: the URL is not lower-cased before the test
is_valid_url_CaseSensitive(u) ==
    ~\E p \in BAD_PATTERNS : Contains(UrlText(u), p)

\* is_valid_url, script.py:77-79
is_valid_url(u) ==
    LET url == [i \in 1 .. Len(UrlText(u)) |-> Lower(UrlText(u)[i])]
    IN  ~\E p \in BAD_PATTERNS : Contains(url, p)

\* the elements of a sequence, without repetition, in order of first
\* occurrence
RECURSIVE Dedup(_)
Dedup(s) ==
    IF s = <<>> THEN <<>>
    ELSE LET init == Dedup(SubSeq(s, 1, Len(s) - 1))
             x == s[Len(s)]
         IN  IF \E i \in 1 .. Len(init) : init[i] = x THEN init ELSE Append(init, x)

\* the hrefs that pass the filter of script.py:90, in document order
RECURSIVE KeptHrefs(_, _)
KeptHrefs(hrefs, domain) ==
    IF hrefs = <<>> THEN <<>>
    ELSE (IF is_internal_link(Head(hrefs), domain) /\ is_valid_url(Head(hrefs))
          THEN <<Head(hrefs)>> ELSE <<>>)
         \o KeptHrefs(Tail(hrefs), domain)

\* extract_links, script.py:86-92, over the resolved hrefs of the page (the
\* values of urljoin(base_url, tag['href'])): the set of normalized kept
\* hrefs, listed here in order of first occurrence
extract_links(hrefs, domain) ==
    LET kept == KeptHrefs(hrefs, domain)
    IN  Dedup([i \in 1 .. Len(kept) |-> normalize_url(kept[i])])

\* the host of the seed and another host
SeedHost == "seed.example"
OtherHost == "other.example"

\* an entry of start_urls, script.py:237-246
StartUrl == Url("https", SeedHost, <<SLASH>>)

\* start_urls, script.py:237-246, with two entries. Both name the site of
\* the model, so that whatever a crawl kept of the crawl before it (visited
\* URLs, field values) would show in it.
start_urls == <<StartUrl, Url("https", SeedHost, <<>>)>>

\* the text of the canonical URL i
PageUrl(i) ==
    IF i = Seed THEN Url("https", SeedHost, <<>>)
    ELSE IF i = OffSite THEN Url("https", OtherHost, <<>>)
    ELSE IF i = MailTo THEN Url("mailto", "", <<"a">>)
    ELSE Url("https", SeedHost, <<SLASH, ToString(i)>>)

PageUrls == [i \in AllUrls |-> PageUrl(i)]

\* the canonical URL whose text is u
IdOf(u) == CHOOSE i \in AllUrls : PageUrls[i] = u

\* hrefs every page carries besides its links into the site: a link to
\* another host and a link into the site that the denylist rejects
OffSiteHref == Url("https", OtherHost, <<SLASH>>)
DeniedHref == Url("https", SeedHost, <<SLASH, "1", QMARK, "PAGE=">>)
ExtraHrefs == <<OffSiteHref, DeniedHref>>

\* an href the seed page may carry as well: a mailto: link, which urljoin
\* leaves as it is and which has no host
MailToHref == Url("mailto", "", <<"a">>)
OptionalHrefs(url) == IF url = Seed THEN { <<>>, <<MailToHref>> } ELSE { <<>> }

\* what the page handed to scrape_page yields: an exception or timeout, a
\* response that is not text/html, or html with its links (list(set), so
\* distinct links in some order)
LinkLists ==
    { l \in UNION { [1 .. n -> Urls] : n \in 0 .. MaxLinks } :
        \A i, j \in 1 .. Len(l) : i # j => l[i] # l[j] }

\* what extract_links makes of one resolved href on a page of the given
\* domain: its normalized URL, or nothing
LinkOfHref(href, domain) ==
    LET found == extract_links(<<href>>, domain)
    IN  [i \in 1 .. Len(found) |-> IdOf(found[i])]

\* LinkOfHref for the links into the site and for ExtraHrefs, tabulated by
\* the page's URL
SiteLinkTable == [url \in AllUrls |-> [i \in AllUrls |->
                    LinkOfHref(PageUrls[i], get_domain(PageUrls[url]))]]
ExtraLinkTable == [url \in AllUrls |-> [k \in 1 .. Len(ExtraHrefs) |->
                    LinkOfHref(ExtraHrefs[k], get_domain(PageUrls[url]))]]

RECURSIVE Flatten(_)
Flatten(ss) == IF ss = <<>> THEN <<>> ELSE Head(ss) \o Flatten(Tail(ss))

\* page_data["links"] for a page at url whose anchors resolve to the site's
\* pages `links` followed by ExtraHrefs and `more`, script.py:104: extract_links keeps
\* or drops each href on its own and removes repetitions
PageLinks(url, links, more) ==
    Dedup(Flatten([i \in 1 .. Len(links) |-> SiteLinkTable[url][links[i]]])
          \o Flatten(ExtraLinkTable[url])
          \o Flatten([k \in 1 .. Len(more) |->
                        LinkOfHref(more[k], get_domain(PageUrls[url]))]))

\* URLs are numbered in the order the crawl discovers them: a link to a URL
\* that is neither visited nor queued is the smallest URL not yet discovered.
InDiscoveryOrder(l, disc) ==
    \A i \in 1 .. Len(l) :
        l[i] \notin disc =>
            l[i] = Cardinality(disc)
                   + Cardinality({ j \in 1 .. (i - 1) : l[j] \notin disc })

\* the link lists in discovery order when n pages of the site are discovered. Whenever a
\* page is processed these are the URLs 0 .. n-1: URLs are numbered as they
\* are discovered, and an entry leaves the frontier unvisited only when it
\* is too deep, after which breadth-first order leaves no entry to process.
OrderedLinkLists ==
    [n \in 0 .. NumUrls |-> { l \in LinkLists : InDiscoveryOrder(l, 0 .. (n - 1)) }]

\* page_data["links"] of the page at url, for every such list
PageLinkSets ==
    [n \in 0 .. NumUrls |-> [url \in Urls |->
        { PageLinks(url, links, more) :
            links \in OrderedLinkLists[n], more \in OptionalHrefs(url) }]]

\* what requests.get does for a URL
FetchOutcomes == { "exception", "non_html", "html" }
FetchFailures == { "exception", "non_html" }

\* requests.get, script.py:97: requests has a connection adapter for http
\* and https only, and raises for a URL of another scheme
OutcomesOf(url) ==
    IF PageUrls[url].scheme \in { "http", "https" } THEN FetchOutcomes ELSE { "exception" }

\* scrape_page, script.py:94-108: None unless the response is text/html
scrape_page_is_none(why) == why # "html"

VARIABLES
    pc,            \* "main" before the call, "loop" inside the while, "done" after return
    output,        \* the module-level dictionary
    visited,       \* the set `visited`
    queue,         \* the deque `queue`, head first
    page_count,    \* the counter `page_count`
    fetched,       \* history: the entries handed to scrape_page, in order
    slept,         \* history: a time.sleep(CRAWL_DELAY) ran since the last scrape_page
    oracle_calls,  \* history: number of calls of gemini_extract_fields
    returned,      \* the value returned by crawl_until_complete
    last,          \* history: what the last loop iteration did
    oracle_raised, \* history: the last call of gemini_extract_fields caught an exception
    probe,         \* the last application of a function on its own, with its result
    rpc,           \* _call_gemini_with_prompt: "idle", "trying", "reraised", "responded", "returned"
    attempts,      \* calls of model.generate_content made by the retry wrapper
    excs,          \* history: the exceptions the attempts raised, in order
    propagated,    \* the exception that left _generate_content_with_retry, or "none"
    response_text, \* response.text of the attempt that returned
    error_fallback,\* the argument error_fallback
    retry_result,  \* the value _call_gemini_with_prompt returned
    seed_index,    \* __main__: the position in start_urls of the loop variable start_url
    file,          \* the lines of structured_output.json, each the object it holds
    data_file,     \* flask_app: the content of data/showcase_data.json
    handler,       \* flask_app: where each POST /apply request is in apply()
    companies,     \* flask_app: the local variable `companies` of each request
    apc,           \* analyze_startup: "idle", the stage about to run, "returned" or "raised"
    startup_info,  \* analyze_startup: the document of the argument startup_info_json
    events,        \* history: the stages entered and the oracle calls made by this call
    raw_news_articles, \* each article by the length of its title and snippet
    analyzed_count,\* the articles perform_sentiment_analysis_for_articles has gone through
    stage_results, \* the values the stages have returned to analyze_startup
    analysis,      \* what analyze_startup returned
    heap           \* the dictionaries and lists of the module-level fallbacks and of the call

retryVars == <<rpc, attempts, excs, propagated, response_text, error_fallback,
               retry_result>>

mainVars == <<seed_index, file>>

appVars == <<data_file, handler, companies>>

analyzerVars == <<apc, startup_info, events, raw_news_articles, analyzed_count, stage_results,
                  analysis, heap>>

vars == <<pc, output, visited, queue, page_count, fetched, slept, oracle_calls,
          returned, last, oracle_raised, probe, retryVars, mainVars, appVars, analyzerVars>>

\* the dictionaries passed as error_fallback, startup_analyzer.py:40-52
Fallbacks == { "DEFAULT_SENTIMENT_ERROR", "DEFAULT_NEWS_SUMMARY_FALLBACK",
               "DEFAULT_CATEGORIZATION_ERROR", "DEFAULT_GROWTH_PREDICTION_ERROR" }

\* the text both DEFAULT_SENTIMENT_ERROR and DEFAULT_CATEGORIZATION_ERROR
\* carry as their reason
GenericReason == "API call failed or response unparsable after retries."

\* the content of the dictionaries, startup_analyzer.py:40-52 (values as
\* their JSON text)
FallbackDict(fb) ==
    CASE fb = "DEFAULT_SENTIMENT_ERROR" ->
            [k \in {"sentiment", "sentiment_score", "reasoning"} |->
                IF k = "sentiment" THEN "Error"
                ELSE IF k = "sentiment_score" THEN "0.0" ELSE GenericReason]
      [] fb = "DEFAULT_NEWS_SUMMARY_FALLBACK" ->
            [k \in {"overall_news_summary", "prominent_headlines"} |->
                IF k = "prominent_headlines" THEN "[]"
                ELSE "Could not generate news summary due to API error or unparsable response after retries."]
      [] fb = "DEFAULT_CATEGORIZATION_ERROR" ->
            [k \in {"primary_category", "sub_categories", "keywords", "reason"} |->
                IF k = "primary_category" THEN "Error"
                ELSE IF k = "reason" THEN GenericReason ELSE "[]"]
      [] OTHER ->
            [k \in {"growth_potential_assessment", "key_factors_from_news",
                    "potential_opportunities_highlighted_by_news",
                    "potential_risks_or_challenges_from_news",
                    "overall_outlook_summary_based_on_news"} |->
                IF k = "growth_potential_assessment" THEN "Error"
                ELSE IF k = "overall_outlook_summary_based_on_news"
                THEN "Prediction failed due to API error or unparsable response after retries."
                ELSE "[]"]

\* the list objects the fallback dictionaries hold, named by their key
ListIds == { "prominent_headlines", "sub_categories", "keywords",
             "key_factors_from_news", "potential_opportunities_highlighted_by_news",
             "potential_risks_or_challenges_from_news" }

\* the dictionaries a call works on: the copy passed as error_fallback, the
\* dictionary _call_gemini_with_prompt builds and returns, and final_summary
TempIds == { "error_fallback", "returned_fallback", "final_summary" }

NoDict == [k \in {} |-> ""]

\* the objects after the module is loaded, startup_analyzer.py:40-52: a list
\* value of a dictionary is a reference to the list object
InitialHeap ==
    [id \in Fallbacks \cup ListIds \cup TempIds |->
        IF id \in Fallbacks
        THEN [k \in DOMAIN FallbackDict(id) |->
                 IF k \in ListIds THEN k ELSE FallbackDict(id)[k]]
        ELSE IF id \in ListIds THEN <<>> ELSE NoDict]

\* dict.copy(): a new dictionary with the same values (the lists are shared)
CopyDict(h, target, source) == [h EXCEPT ![target] = h[source]]

\* d[key] = value on the dictionary object id
SetItem(h, id, key, value) ==
    [h EXCEPT ![id] = [k \in (DOMAIN h[id]) \cup {key} |->
                          IF k = key THEN value ELSE h[id][k]]]

\* {**d1, **d2}
Merge(d1, d2) ==
    [k \in (DOMAIN d1) \cup (DOMAIN d2) |-> IF k \in DOMAIN d2 THEN d2[k] ELSE d1[k]]

\* the stages of analyze_startup that return a value to it
Stages == { "summary", "categorization", "growth" }
NoValue == [kind |-> "none"]
NoStageResults == [st \in Stages |-> NoValue]

NoProbe == [fn |-> "none"]

\* the concurrent POST /apply requests, each submitting the company of its
\* number; the data file holds company 0 before them
NumRequests == 3
Requests == 1 .. NumRequests
InitialCompanies == <<0>>
new_company(r) == r

NoResult == [kind |-> "none"]

Entry(u, d) == [url |-> u, depth |-> d]

Init ==
    /\ pc = "main"
    /\ output = EmptyDict
    /\ visited = {}
    /\ queue = <<>>
    /\ page_count = 0
    /\ fetched = <<>>
    /\ slept = FALSE
    /\ oracle_calls = 0
    /\ returned = EmptyDict
    /\ last = "none"
    /\ oracle_raised = FALSE
    /\ probe = NoProbe
    /\ rpc = "idle"
    /\ attempts = 0
    /\ excs = <<>>
    /\ propagated = "none"
    /\ response_text = <<>>
    /\ error_fallback = "none"
    /\ retry_result = NoResult
    /\ seed_index = 1
    /\ file = <<>>
    /\ data_file = [valid |-> TRUE, companies |-> InitialCompanies]
    /\ handler = [r \in Requests |-> "idle"]
    /\ companies = [r \in Requests |-> <<>>]
    /\ apc = "idle"
    /\ startup_info = "none"
    /\ events = <<>>
    /\ raw_news_articles = <<>>
    /\ analyzed_count = 0
    /\ stage_results = NoStageResults
    /\ analysis = [kind |-> "none"]
    /\ heap = InitialHeap

\* mutant of Call: the dictionary of the previous crawl is kept (no
\* `output = {}`)
Call_KeepsOutput ==
    /\ pc = "main"
    /\ seed_index <= Len(start_urls)
    /\ pc' = "loop"
    /\ visited' = {}
    /\ queue' = <<Entry(IdOf(normalize_url(start_urls[seed_index])), 0)>>
    /\ page_count' = 0
    /\ fetched' = <<>>
    /\ slept' = FALSE
    /\ oracle_calls' = 0
    /\ last' = "none"
    /\ oracle_raised' = FALSE
    /\ UNCHANGED <<output, returned, probe, retryVars, mainVars, appVars, analyzerVars>>

\* script.py:252-253 and crawl_until_complete, script.py:202-207: the loop
\* of __main__ calls crawl_until_complete with its next seed; the histories
\* of the crawl start anew
Call ==
    /\ pc = "main"
    /\ seed_index <= Len(start_urls)
    /\ pc' = "loop"
    /\ output' = EmptyDict
    /\ visited' = {}
    /\ queue' = <<Entry(IdOf(normalize_url(start_urls[seed_index])), 0)>>
    /\ page_count' = 0
    /\ fetched' = <<>>
    /\ slept' = FALSE
    /\ oracle_calls' = 0
    /\ last' = "none"
    /\ oracle_raised' = FALSE
    /\ UNCHANGED <<returned, probe, retryVars, mainVars, appVars, analyzerVars>>

\* mutant of LoopCondition: the completeness test is left out of the loop
\* condition (the condition of crawl_domain)
LoopCondition_NoCompleteness ==
    queue # <<>> /\ page_count < MAX_PAGES

\* mutant of LoopCondition: the budget test is off by one
LoopCondition_OffByOne ==
    queue # <<>> /\ page_count <= MAX_PAGES /\ ~is_output_complete(output)

\* the condition of the while loop, script.py:209
LoopCondition ==
    queue # <<>> /\ page_count < MAX_PAGES /\ ~is_output_complete(output)

\* mutant of ShouldSkip: the depth test is left out
ShouldSkip_NoDepth(e, vis) == e.url \in vis

\* mutant of ShouldSkip: the visited test is left out
ShouldSkip_NoVisited(e, vis) == e.depth > MAX_DEPTH

\* the test of script.py:211
ShouldSkip(e, vis) == e.url \in vis \/ e.depth > MAX_DEPTH

\* mutant of Enqueue: the new entries are pushed at the head (appendleft)
Enqueue_AtHead(q, new) == new \o q

\* queue.append for each new entry, script.py:227
Enqueue(q, new) == q \o new

\* mutant of SkipEntry: the entry is read but not removed from the queue
SkipEntry_NoPop ==
    /\ pc = "loop"
    /\ LoopCondition
    /\ ShouldSkip(Head(queue), visited)
    /\ UNCHANGED vars

\* script.py:210-212: the entry is skipped
SkipEntry ==
    /\ pc = "loop"
    /\ LoopCondition
    /\ LET e == Head(queue)
       IN  /\ ShouldSkip(e, visited)
           /\ queue' = Tail(queue)
           /\ last' = IF e.url \in visited THEN "skip_visited" ELSE "skip_depth"
    /\ UNCHANGED <<pc, output, visited, page_count, fetched, slept, oracle_calls,
                   returned, probe, retryVars, mainVars, appVars, analyzerVars, oracle_raised>>

\* mutant of FetchFail: the failure is not caught and ends the crawl
FetchFail_Aborts ==
    /\ pc = "loop"
    /\ LoopCondition
    /\ LET e == Head(queue)
       IN  /\ ~ShouldSkip(e, visited)
           /\ \E why \in OutcomesOf(e.url) \cap FetchFailures : scrape_page_is_none(why)
           /\ last' = "no_content"
           /\ visited' = visited \cup {e.url}
           /\ fetched' = Append(fetched, e)
           /\ slept' = FALSE
           /\ queue' = Tail(queue)
           /\ pc' = "done"
           /\ returned' = output
    /\ UNCHANGED <<output, page_count, oracle_calls, probe, retryVars, mainVars, appVars, analyzerVars, oracle_raised>>

\* mutant of FetchFail: the URL is marked visited only once it gave content
FetchFail_NotVisited ==
    /\ pc = "loop"
    /\ LoopCondition
    /\ LET e == Head(queue)
       IN  /\ ~ShouldSkip(e, visited)
           /\ \E why \in OutcomesOf(e.url) \cap FetchFailures : scrape_page_is_none(why)
           /\ last' = "no_content"
           /\ fetched' = Append(fetched, e)
           /\ slept' = FALSE
           /\ queue' = Tail(queue)
    /\ UNCHANGED <<pc, output, visited, page_count, oracle_calls, returned, probe,
                   retryVars, mainVars, appVars, analyzerVars, oracle_raised>>

\* mutant of FetchFail: the oracle is called before page_data is tested
FetchFail_CallsOracle ==
    /\ pc = "loop"
    /\ LoopCondition
    /\ LET e == Head(queue)
       IN  /\ ~ShouldSkip(e, visited)
           /\ \E why \in OutcomesOf(e.url) \cap FetchFailures : scrape_page_is_none(why)
           /\ last' = "no_content"
           /\ visited' = visited \cup {e.url}
           /\ fetched' = Append(fetched, e)
           /\ slept' = FALSE
           /\ queue' = Tail(queue)
           /\ oracle_calls' = oracle_calls + 1
    /\ UNCHANGED <<pc, output, page_count, returned, probe, retryVars, mainVars, appVars, analyzerVars, oracle_raised>>

\* script.py:210-218: scrape_page returns None
FetchFail ==
    /\ pc = "loop"
    /\ LoopCondition
    /\ LET e == Head(queue)
       IN  /\ ~ShouldSkip(e, visited)
           /\ \E why \in OutcomesOf(e.url) \cap FetchFailures : scrape_page_is_none(why)
           /\ last' = "no_content"
           /\ visited' = visited \cup {e.url}
           /\ fetched' = Append(fetched, e)
           /\ slept' = FALSE
           /\ queue' = Tail(queue)
    /\ UNCHANGED <<pc, output, page_count, oracle_calls, returned, probe, retryVars, mainVars, appVars, analyzerVars, oracle_raised>>

\* the URLs the crawl has met so far: visited or waiting in the queue
Discovered == visited \cup { queue[i].url : i \in 1 .. Len(queue) }

\* the links appended by script.py:225-227
RECURSIVE NewEntries(_, _, _)
NewEntries(links, vis, depth) ==
    IF links = <<>> THEN <<>>
    ELSE (IF Head(links) \notin vis THEN <<Entry(Head(links), depth + 1)>> ELSE <<>>)
         \o NewEntries(Tail(links), vis, depth)

\* mutant of ProcessPage: a page whose oracle call failed is left like a
\* page without content (its links and the page count are skipped)
ProcessPage_OracleFailureSkipsPage ==
    /\ pc = "loop"
    /\ LoopCondition
    /\ LET e == Head(queue)
       IN  /\ ~ShouldSkip(e, visited)
           /\ \E why \in OutcomesOf(e.url) : ~scrape_page_is_none(why)
           /\ \E new \in { NewEntries(links, visited \cup {e.url}, e.depth) :
                              links \in PageLinkSets[Cardinality(Discovered \cap Urls)][e.url] } :
              \E r \in { LET response == gemini_extract_fields(o)
                         IN  [raised |-> response.isNone,
                              out |-> IF ResponseTruthy(response)
                                      THEN update_output(output, response.text)
                                      ELSE output] : o \in OracleOutcomes } :
                /\ output' = r.out
                /\ oracle_raised' = r.raised
                /\ queue' = IF r.raised THEN Tail(queue) ELSE Enqueue(Tail(queue), new)
                /\ page_count' = IF r.raised THEN page_count ELSE page_count + 1
           /\ last' = "page"
           /\ visited' = visited \cup {e.url}
           /\ fetched' = Append(fetched, e)
           /\ oracle_calls' = oracle_calls + 1
           /\ slept' = TRUE
    /\ UNCHANGED <<pc, returned, probe, retryVars, mainVars, appVars, analyzerVars>>

\* script.py:210-230: the page has content
ProcessPage ==
    /\ pc = "loop"
    /\ LoopCondition
    /\ LET e == Head(queue)
       IN  /\ ~ShouldSkip(e, visited)
           /\ \E why \in OutcomesOf(e.url) : ~scrape_page_is_none(why)
           /\ \E new \in { NewEntries(links, visited \cup {e.url}, e.depth) :
                              links \in PageLinkSets[Cardinality(Discovered \cap Urls)][e.url] } :
                queue' = Enqueue(Tail(queue), new)
           /\ last' = "page"
           /\ \E r \in { LET response == gemini_extract_fields(o)
                         IN  [raised |-> response.isNone,
                              out |-> IF ResponseTruthy(response)
                                      THEN update_output(output, response.text)
                                      ELSE output] : o \in OracleOutcomes } :
                /\ output' = r.out
                /\ oracle_raised' = r.raised
           /\ visited' = visited \cup {e.url}
           /\ fetched' = Append(fetched, e)
           /\ oracle_calls' = oracle_calls + 1
           /\ page_count' = page_count + 1
           /\ slept' = TRUE
    /\ UNCHANGED <<pc, returned, probe, retryVars, mainVars, appVars, analyzerVars>>

\* script.py:232-235: the loop has ended, output is returned
Return ==
    /\ pc = "loop"
    /\ ~LoopCondition
    /\ pc' = "done"
    /\ returned' = output
    /\ UNCHANGED <<output, visited, queue, page_count, fetched, slept, oracle_calls,
                   last, probe, retryVars, mainVars, appVars, analyzerVars, oracle_raised>>

Next == Call \/ SkipEntry \/ FetchFail \/ ProcessPage \/ Return

Spec == Init /\ [][Next]_vars

\* the interpreter runs the loop to its end: no step waits on anything
FairSpec == Spec /\ WF_vars(Next)

\* mutant of WriteLine: the file is opened with "w"
WriteLine_Truncates ==
    /\ pc = "done"
    /\ file' = <<returned>>
    /\ seed_index' = seed_index + 1
    /\ pc' = "main"
    /\ UNCHANGED <<output, visited, queue, page_count, fetched, slept, oracle_calls,
                   returned, last, probe, retryVars, oracle_raised, appVars, analyzerVars>>

\* script.py:255-257: final_output is appended to structured_output.json as
\* one line, and the for loop goes to its next seed
WriteLine ==
    /\ pc = "done"
    /\ file' = Append(file, returned)
    /\ seed_index' = seed_index + 1
    /\ pc' = "main"
    /\ UNCHANGED <<output, visited, queue, page_count, fetched, slept, oracle_calls,
                   returned, last, probe, retryVars, oracle_raised, appVars, analyzerVars>>

\* script.py:251-260: the crawls of all seeds, one after the other
MainNext == Next \/ WriteLine

MainSpec == Init /\ [][MainNext]_vars

\* ------------------------------------------------------------------------
\* update_output applied to any sequence of oracle answers, without a reset
\* of output in between (the merges of one crawl)
UpdateOutput ==
    /\ \E t \in ResponseTexts :
         /\ output' = update_output(output, t)
         /\ probe' = [fn |-> "update_output", text |-> t, before |-> output,
                      caught |-> ParseError(t)]
    /\ UNCHANGED <<pc, visited, queue, page_count, fetched, slept, oracle_calls,
                   returned, last, retryVars, mainVars, appVars, analyzerVars, oracle_raised>>

MergeNext == UpdateOutput

MergeSpec == Init /\ [][MergeNext]_vars

\* ------------------------------------------------------------------------
\* The URL functions applied on their own to bounded URL texts; probe records
\* the arguments and the value returned.
MaxTail == 3

TailTokens == { SLASH, SEMI, QMARK, HASH, "a", "page=", "UTM_" }

Tails == UNION { [1 .. n -> TailTokens] : n \in 0 .. MaxTail }

Hosts == { SeedHost, OtherHost }

\* URL texts: https URLs with a host, where what follows the host starts
\* with "/", "?" or "#", and mailto URLs, which have no "//" and no host
UrlInputs ==
    { Url("https", h, t) : h \in Hosts,
                           t \in { x \in Tails : x = <<>> \/ x[1] \in {SLASH, QMARK, HASH} } }
    \cup { Url("mailto", "", t) :
             t \in { x \in Tails : ~(Len(x) >= 2 /\ x[1] = SLASH /\ x[2] = SLASH) } }

\* resolved hrefs a page may carry
SampleHrefs ==
    { OffSiteHref, DeniedHref,
      Url("https", SeedHost, <<SLASH, "1">>),
      Url("https", SeedHost, <<SLASH, "1", SLASH>>),
      Url("https", SeedHost, <<SLASH, "2", HASH, "a">>),
      Url("https", SeedHost, <<SLASH, "UTM_">>),
      MailToHref }

HrefLists == UNION { [1 .. n -> SampleHrefs] : n \in 0 .. MaxLinks }

ApplyIsInternalLink ==
    /\ probe = NoProbe
    /\ \E link \in UrlInputs, domain \in Hosts :
         probe' = [fn |-> "is_internal_link", link |-> link, domain |-> domain,
                   result |-> is_internal_link(link, domain)]
    /\ UNCHANGED <<pc, output, visited, queue, page_count, fetched, slept,
                   oracle_calls, returned, last, retryVars, mainVars, appVars, analyzerVars, oracle_raised>>

ApplyIsValidUrl ==
    /\ probe = NoProbe
    /\ \E url \in UrlInputs :
         probe' = [fn |-> "is_valid_url", url |-> url, result |-> is_valid_url(url)]
    /\ UNCHANGED <<pc, output, visited, queue, page_count, fetched, slept,
                   oracle_calls, returned, last, retryVars, mainVars, appVars, analyzerVars, oracle_raised>>

ApplyNormalizeUrl ==
    /\ probe = NoProbe
    /\ \E url \in UrlInputs :
         probe' = [fn |-> "normalize_url", url |-> url, result |-> normalize_url(url),
                   again |-> FALSE]
    /\ UNCHANGED <<pc, output, visited, queue, page_count, fetched, slept,
                   oracle_calls, returned, last, retryVars, mainVars, appVars, analyzerVars, oracle_raised>>

\* normalize_url applied to a URL it returned (a link taken from the queue
\* is normalized again when it is found on another page)
NormalizeAgain ==
    /\ probe.fn = "normalize_url"
    /\ ~probe.again
    /\ probe' = [fn |-> "normalize_url", url |-> probe.result,
                 result |-> normalize_url(probe.result), again |-> TRUE]
    /\ UNCHANGED <<pc, output, visited, queue, page_count, fetched, slept,
                   oracle_calls, returned, last, retryVars, mainVars, appVars, analyzerVars, oracle_raised>>

ApplyExtractLinks ==
    /\ probe = NoProbe
    /\ \E hrefs \in HrefLists, domain \in Hosts :
         probe' = [fn |-> "extract_links", hrefs |-> hrefs, domain |-> domain,
                   result |-> extract_links(hrefs, domain)]
    /\ UNCHANGED <<pc, output, visited, queue, page_count, fetched, slept,
                   oracle_calls, returned, last, retryVars, mainVars, appVars, analyzerVars, oracle_raised>>

UrlNext ==
    \/ ApplyIsInternalLink
    \/ ApplyIsValidUrl
    \/ ApplyNormalizeUrl
    \/ NormalizeAgain
    \/ ApplyExtractLinks

UrlSpec == Init /\ [][UrlNext]_vars

\* ------------------------------------------------------------------------
\* startup_analyzer.py: one call of _call_gemini_with_prompt

\* DEFAULT_API_MAX_ATTEMPTS, startup_analyzer.py:30
DEFAULT_API_MAX_ATTEMPTS == 3

\* the JSON documents an answer of the analyzer's oracle may carry
AnalyzerDocs == { "J_nameA", "J_emptyobj", "J_array", "J_emptyarr", "J_number", "J_null" }

\* the type json.loads gives the document
DocType(d) ==
    CASE d \in {"J_nameA", "J_emptyobj"} -> "dict"
      [] d \in {"J_array", "J_emptyarr"} -> "list"
      [] d = "J_number" -> "int"
      [] OTHER -> "NoneType"

\* bool() of the decoded document: {} [] and None are falsy
DocTruthy(d) == d \in {"J_nameA", "J_array", "J_number"}

AnalyzerTexts ==
    { <<d>> : d \in AnalyzerDocs }
    \cup { <<WS, "J_nameA", WS>>,
           <<FENCE_JSON, WS, "J_nameA", WS, FENCE>>,
           <<PROSE, WS, FENCE_JSON, WS, "J_nameA", WS, FENCE, WS, PROSE>>,
           <<FENCE_JSON, WS, "J_emptyobj", WS, FENCE>>,
           <<FENCE, WS, "J_nameA", WS, FENCE>>,
           <<FENCE_JSON, WS, "J_array", WS, FENCE>>,
           <<FENCE_JSON, "J_nameA", PROSE, "J_nameA", FENCE>>,
           <<PROSE>>,
           <<>> }

\* the exceptions model.generate_content may raise
Exceptions == { "E1", "E2" }

\* _get_reason_field, startup_analyzer.py:134-139: the key that receives the
\* reason text, "none" when the function returns {}
_get_reason_field(fb) ==
    LET fallback_dict == FallbackDict(fb)
    IN  IF "reasoning" \in DOMAIN fallback_dict THEN "reasoning"
        ELSE IF "reason" \in DOMAIN fallback_dict THEN "reason"
        ELSE IF "overall_news_summary" \in DOMAIN fallback_dict THEN "overall_news_summary"
        ELSE "none"

\* the reason texts of startup_analyzer.py:123 and 131
ParseFailedReason == "Failed to parse Gemini response or response was empty."
UnexpectedReason(exc) ==
    IF exc = "E1" THEN "Unexpected error: E1" ELSE "Unexpected error: E2"

\* the first position from i on that holds no whitespace
RECURSIVE SkipWs(_, _)
SkipWs(text, i) ==
    IF i <= Len(text) /\ text[i] = WS THEN SkipWs(text, i + 1) ELSE i

\* the regular expression of startup_analyzer.py:89 matches with the json
\* fence at i, the capture group running from token k to token m
MatchesAt(text, i, k, m) ==
    /\ text[i] = FENCE_JSON
    /\ k = SkipWs(text, i + 1)
    /\ k <= Len(text) /\ text[k] \in {"J_nameA", "J_emptyobj"}
    /\ m \in k .. Len(text) /\ text[m] \in {"J_nameA", "J_emptyobj"}
    /\ LET c == SkipWs(text, m + 1)
       IN  c <= Len(text) /\ text[c] \in {FENCE, FENCE_JSON}

Positions(text) == (1 .. Len(text)) \X (1 .. Len(text)) \X (1 .. Len(text))

\* the leftmost match with the shortest capture group
FirstMatch(text) ==
    CHOOSE p \in Positions(text) :
        /\ MatchesAt(text, p[1], p[2], p[3])
        /\ \A q \in Positions(text) :
              MatchesAt(text, q[1], q[2], q[3]) =>
                  (p[1] < q[1] \/ (p[1] = q[1] /\ p[3] <= q[3]))

Parsed(d) == [isNone |-> FALSE, doc |-> d]
ParsedNone == [isNone |-> TRUE, doc |-> "none"]

\* parse_gemini_json_response, startup_analyzer.py:78-102
parse_gemini_json_response(text) ==
    LET loads(t) == IF Len(NoWs(t)) = 1 /\ NoWs(t)[1] \in AnalyzerDocs
                    THEN Parsed(NoWs(t)[1]) ELSE ParsedNone
    IN  IF ~loads(text).isNone THEN loads(text)
        ELSE IF \E p \in Positions(text) :
                   MatchesAt(text, p[1], p[2], p[3])
             THEN LET p == FirstMatch(text)
                  IN  loads(SubSeq(text, p[2], p[3]))
             ELSE ParsedNone

\* {**error_fallback, **_get_reason_field(error_fallback, reason)}
FallbackWith(fb, reason) ==
    LET key == _get_reason_field(fb)
        update == IF key = "none" THEN {} ELSE {key}
    IN  [kind |-> "fallback", base |-> fb, key |-> key, reason |-> reason,
         value |-> [k \in (DOMAIN FallbackDict(fb)) \cup update |->
                       IF k \in update THEN reason ELSE FallbackDict(fb)[k]]]

\* _call_gemini_with_prompt is called, startup_analyzer.py:113-116
CallGemini ==
    /\ rpc = "idle"
    /\ rpc' = "trying"
    /\ \E fb \in Fallbacks : error_fallback' = fb
    /\ UNCHANGED <<attempts, excs, propagated, response_text, retry_result>>
    /\ UNCHANGED <<pc, output, visited, queue, page_count, fetched, slept,
                   oracle_calls, returned, last, probe, mainVars, appVars, analyzerVars, oracle_raised>>

\* one attempt of _generate_content_with_retry raises, startup_analyzer.py:
\* 104-111: stop_after_attempt ends the retries at the attempt numbered
\* DEFAULT_API_MAX_ATTEMPTS and reraise=True lets that attempt's exception
\* out; before that the wrapper waits and tries again
AttemptRaises ==
    /\ rpc = "trying"
    /\ \E exc \in Exceptions :
         /\ attempts' = attempts + 1
         /\ excs' = Append(excs, exc)
         /\ IF attempts + 1 >= DEFAULT_API_MAX_ATTEMPTS
            THEN rpc' = "reraised" /\ propagated' = exc
            ELSE rpc' = "trying" /\ propagated' = propagated
    /\ UNCHANGED <<response_text, error_fallback, retry_result>>
    /\ UNCHANGED <<pc, output, visited, queue, page_count, fetched, slept,
                   oracle_calls, returned, last, probe, mainVars, appVars, analyzerVars, oracle_raised>>

\* one attempt returns a response: the wrapper returns it
AttemptReturns ==
    /\ rpc = "trying"
    /\ attempts' = attempts + 1
    /\ \E t \in AnalyzerTexts : response_text' = t
    /\ rpc' = "responded"
    /\ UNCHANGED <<excs, propagated, error_fallback, retry_result>>
    /\ UNCHANGED <<pc, output, visited, queue, page_count, fetched, slept,
                   oracle_calls, returned, last, probe, mainVars, appVars, analyzerVars, oracle_raised>>

\* startup_analyzer.py:117-124: the response is parsed and returned, or the
\* fallback with the parsing reason
ParseResponse ==
    /\ rpc = "responded"
    /\ LET parsed_data == parse_gemini_json_response(response_text)
       IN  retry_result' =
              IF ~parsed_data.isNone /\ DocTruthy(parsed_data.doc)
              THEN [kind |-> "parsed", doc |-> parsed_data.doc]
              ELSE FallbackWith(error_fallback, ParseFailedReason)
    /\ rpc' = "returned"
    /\ UNCHANGED <<attempts, excs, propagated, response_text, error_fallback>>
    /\ UNCHANGED <<pc, output, visited, queue, page_count, fetched, slept,
                   oracle_calls, returned, last, probe, mainVars, appVars, analyzerVars, oracle_raised>>

\* startup_analyzer.py:126-132: the exception that left the wrapper is not a
\* RetryError (reraise=True), so the handler of Exception answers
HandleException ==
    /\ rpc = "reraised"
    /\ retry_result' = FallbackWith(error_fallback, UnexpectedReason(propagated))
    /\ rpc' = "returned"
    /\ UNCHANGED <<attempts, excs, propagated, response_text, error_fallback>>
    /\ UNCHANGED <<pc, output, visited, queue, page_count, fetched, slept,
                   oracle_calls, returned, last, probe, mainVars, appVars, analyzerVars, oracle_raised>>

RetryNext ==
    \/ CallGemini
    \/ AttemptRaises
    \/ AttemptReturns
    \/ ParseResponse
    \/ HandleException

RetrySpec == Init /\ [][RetryNext]_vars

\* ------------------------------------------------------------------------
\* crawl_until_complete run twice, in two processes, against one site whose
\* fetches all give HTML and whose oracle answers are fixed per page

\* the pages of the site
TwinPages == { Seed, 1, 2 }

\* links = set(), script.py:87: the links of a page, as the pages they
\* resolve to
AnchorSets == { a \in SUBSET TwinPages : Cardinality(a) <= MaxLinks }

\* page_data["links"], script.py:104: a list of the set
AnchorLists ==
    { l \in UNION { [1 .. n -> TwinPages] : n \in 0 .. MaxLinks } :
        \A i, j \in 1 .. Len(l) : i # j => l[i] # l[j] }

\* a site: the anchors of every page, and the pages whose fetch gives no
\* content
Sites ==
    { [anchors |-> a, dead |-> d] :
        a \in [TwinPages -> AnchorSets], d \in SUBSET (TwinPages \ {Seed}) }

\* the oracle's answer for the text of each page
SiteAnswers ==
    [p \in TwinPages |->
        IF p = Seed THEN <<PROSE>> ELSE IF p = 1 THEN <<"J_nameA">> ELSE <<"J_required">>]

\* list(set), script.py:87 and 104: extract_links collects the links in a
\* set of strings and scrape_page lists it; the order of the list is the
\* set's iteration order, which follows the strings' hashes (randomized per
\* process) and not the order of insertion
SetOrders ==
    [a \in AnchorSets |-> { l \in AnchorLists : { l[i] : i \in 1 .. Len(l) } = a }]

\* page_data["links"] of every page of the site in one process
LinkOrders(site) ==
    { [p \in TwinPages |-> IF p = Seed THEN s0 ELSE IF p = 1 THEN s1 ELSE s2] :
        s0 \in SetOrders[site.anchors[Seed]],
        s1 \in SetOrders[site.anchors[1]],
        s2 \in SetOrders[site.anchors[2]] }

\* the while loop of crawl_until_complete, script.py:209-235, run to its end:
\* the entries handed to scrape_page, in order, the calls of time.sleep and
\* the output returned
RECURSIVE CrawlLoop(_, _, _, _, _, _, _, _, _)
CrawlLoop(links, dead, answers, q, vis, count, out, entries, sleeps) ==
    IF ~(q # <<>> /\ count < MAX_PAGES /\ ~is_output_complete(out))
    THEN [fetched |-> entries, sleeps |-> sleeps, output |-> out]
    ELSE LET e == Head(q)
         IN  IF ShouldSkip(e, vis)
             THEN CrawlLoop(links, dead, answers, Tail(q), vis, count, out, entries, sleeps)
             ELSE IF e.url \in dead
             THEN CrawlLoop(links, dead, answers, Tail(q), vis \cup {e.url}, count, out,
                            Append(entries, e), sleeps)
             ELSE CrawlLoop(links, dead, answers,
                            Enqueue(Tail(q),
                                    NewEntries(links[e.url], vis \cup {e.url}, e.depth)),
                            vis \cup {e.url},
                            count + 1,
                            update_output(out, answers[e.url]),
                            Append(entries, e),
                            sleeps + 1)

\* crawl_until_complete(start_url), script.py:201-235
CrawlResult(links, dead, answers) ==
    CrawlLoop(links, dead, answers, <<Entry(Seed, 0)>>, {}, 0, EmptyDict, <<>>, 0)

NoCrawl == [fetched |-> <<>>, sleeps |-> 0, output |-> EmptyDict]

\* one process crawls the site
FirstCrawl ==
    /\ probe = NoProbe
    /\ \E site \in Sites : \E links \in LinkOrders(site) :
         probe' = [fn |-> "crawl_until_complete", site |-> site, links |-> links,
                   again |-> FALSE,
                   first |-> CrawlResult(links, site.dead, SiteAnswers), second |-> NoCrawl]
    /\ UNCHANGED <<pc, output, visited, queue, page_count, fetched, slept,
                   oracle_calls, returned, last, oracle_raised, retryVars, mainVars, appVars, analyzerVars>>

\* another process crawls the same site
SecondCrawl ==
    /\ probe.fn = "crawl_until_complete"
    /\ ~probe.again
    /\ \E links \in LinkOrders(probe.site) :
         probe' = [probe EXCEPT !.again = TRUE, !.links = links,
                                !.second = CrawlResult(links, probe.site.dead, SiteAnswers)]
    /\ UNCHANGED <<pc, output, visited, queue, page_count, fetched, slept,
                   oracle_calls, returned, last, oracle_raised, retryVars, mainVars, appVars, analyzerVars>>

OrderNext == FirstCrawl \/ SecondCrawl

OrderSpec == Init /\ [][OrderNext]_vars

\* one crawl of every site
BfsSpec == Init /\ [][FirstCrawl]_vars

\* ------------------------------------------------------------------------
\* crawl_domain and crawl_until_complete on one site, with an oracle that
\* never answers with JSON

\* page_data["links"] of the page at url: the pages of the site are numbered
\* breadth-first and a page links to later pages
ForwardLinks(url) ==
    { l \in LinkLists : \A i \in 1 .. Len(l) : l[i] > url }

\* the link lists of the first n pages of a site
RECURSIVE ForwardLinkMaps(_)
ForwardLinkMaps(n) ==
    IF n = 0 THEN { [url \in {} |-> <<>>] }
    ELSE { [url \in 0 .. (n - 1) |-> IF url = n - 1 THEN l ELSE f[url]] :
             f \in ForwardLinkMaps(n - 1), l \in ForwardLinks(n - 1) }

\* the while loop of crawl_domain, script.py:116-129, run to its end: the
\* entries handed to scrape_page, in order, and the calls of time.sleep
RECURSIVE DomainLoop(_, _, _, _, _, _)
DomainLoop(links, dead, q, vis, entries, sleeps) ==
    IF ~(q # <<>> /\ Cardinality(vis) < MAX_PAGES)
    THEN [fetched |-> entries, sleeps |-> sleeps]
    ELSE LET e == Head(q)
         IN  IF ShouldSkip(e, vis)
             THEN DomainLoop(links, dead, Tail(q), vis, entries, sleeps)
             ELSE IF e.url \in dead
             THEN DomainLoop(links, dead, Tail(q), vis \cup {e.url},
                             Append(entries, e), sleeps + 1)
             ELSE DomainLoop(links, dead,
                             Enqueue(Tail(q),
                                     NewEntries(links[e.url], vis \cup {e.url}, e.depth)),
                             vis \cup {e.url},
                             Append(entries, e),
                             sleeps + 1)

\* crawl_domain(start_url), script.py:110-131
crawl_domain(links, dead) ==
    DomainLoop(links, dead, <<Entry(Seed, 0)>>, {}, <<>>, 0)

\* the oracle answers every page with prose: the output never completes
NeverComplete == [url \in Urls |-> <<PROSE>>]

\* both functions crawl one site: the link list of every page, and the
\* pages whose fetch gives no content
CrawlBoth ==
    /\ probe = NoProbe
    /\ \E links \in ForwardLinkMaps(NumUrls), dead \in SUBSET (Urls \ {Seed}) :
         probe' = [fn |-> "crawl_domain", links |-> links, dead |-> dead,
                   domain |-> crawl_domain(links, dead),
                   until |-> CrawlResult(links, dead, NeverComplete)]
    /\ UNCHANGED <<pc, output, visited, queue, page_count, fetched, slept,
                   oracle_calls, returned, last, oracle_raised, retryVars, mainVars, appVars, analyzerVars>>

DomainSpec == Init /\ [][CrawlBoth]_vars

\* ------------------------------------------------------------------------
\* flask_app.py: POST /apply, each request handled in a thread of its own

\* flask_app.py:28-76: the request arrives, the uploads are saved and
\* new_company is built
Post(r) ==
    /\ handler[r] = "idle"
    /\ handler' = [handler EXCEPT ![r] = "load"]
    /\ UNCHANGED <<data_file, companies>>
    /\ UNCHANGED <<pc, output, visited, queue, page_count, fetched, slept,
                   oracle_calls, returned, last, oracle_raised, probe, retryVars,
                   mainVars, analyzerVars>>

\* flask_app.py:79-80: json.load of the data file; a file that another
\* request has opened for writing and not yet written is empty, json.load
\* raises and the request ends with an error
Load(r) ==
    /\ handler[r] = "load"
    /\ IF data_file.valid
       THEN /\ companies' = [companies EXCEPT ![r] = data_file.companies]
            /\ handler' = [handler EXCEPT ![r] = "append"]
       ELSE /\ handler' = [handler EXCEPT ![r] = "failed"]
            /\ UNCHANGED companies
    /\ UNCHANGED data_file
    /\ UNCHANGED <<pc, output, visited, queue, page_count, fetched, slept,
                   oracle_calls, returned, last, oracle_raised, probe, retryVars,
                   mainVars, analyzerVars>>

\* flask_app.py:82: companies.append(new_company)
AppendCompany(r) ==
    /\ handler[r] = "append"
    /\ companies' = [companies EXCEPT ![r] = Append(@, new_company(r))]
    /\ handler' = [handler EXCEPT ![r] = "open"]
    /\ UNCHANGED data_file
    /\ UNCHANGED <<pc, output, visited, queue, page_count, fetched, slept,
                   oracle_calls, returned, last, oracle_raised, probe, retryVars,
                   mainVars, analyzerVars>>

\* flask_app.py:84: open(DATA_FILE, 'w') truncates the file
OpenForWrite(r) ==
    /\ handler[r] = "open"
    /\ data_file' = [valid |-> FALSE, companies |-> <<>>]
    /\ handler' = [handler EXCEPT ![r] = "dump"]
    /\ UNCHANGED companies
    /\ UNCHANGED <<pc, output, visited, queue, page_count, fetched, slept,
                   oracle_calls, returned, last, oracle_raised, probe, retryVars,
                   mainVars, analyzerVars>>

\* flask_app.py:85-87: json.dump, the file is closed, the redirect is
\* returned
Dump(r) ==
    /\ handler[r] = "dump"
    /\ data_file' = [valid |-> TRUE, companies |-> companies[r]]
    /\ handler' = [handler EXCEPT ![r] = "redirected"]
    /\ UNCHANGED companies
    /\ UNCHANGED <<pc, output, visited, queue, page_count, fetched, slept,
                   oracle_calls, returned, last, oracle_raised, probe, retryVars,
                   mainVars, analyzerVars>>

AppNext ==
    \E r \in Requests :
        \/ Post(r)
        \/ Load(r)
        \/ AppendCompany(r)
        \/ OpenForWrite(r)
        \/ Dump(r)

AppSpec == Init /\ [][AppNext]_vars

\* ------------------------------------------------------------------------
\* startup_analyzer.py: perform_sentiment_analysis_for_articles on its own

MaxArticles == 3

\* sentiment scores in thousandths; no mean of up to nine of them lies
\* half-way between two hundredths
ScoreValues == { -304, -204, 0, 204, 304 }

\* what analyze_article_sentiment_with_gemini returns for an article: a
\* dictionary with "sentiment" and "sentiment_score", whose score is a number
\* or another JSON value (a string, null)
SentimentResults ==
    { [sentiment |-> l, numeric |-> TRUE, score |-> v] :
        l \in { "Positive", "Negative", "Error" }, v \in ScoreValues }
    \cup { [sentiment |-> l, numeric |-> FALSE, score |-> 0] :
             l \in { "Positive", "Error" } }

\* round(total_score / valid_articles_count, 2), startup_analyzer.py:228, in
\* hundredths, for a total in thousandths
Round2(total, count) == (2 * total + 10 * count) \div (20 * count)

\* mutant of IsValidArticle: the "Error" label is not looked at
IsValidArticle_AnyLabel(result) == result.numeric

\* the condition of startup_analyzer.py:220
IsValidArticle(result) == result.sentiment # "Error" /\ result.numeric

\* the for loop of startup_analyzer.py:211-222 over the remaining articles,
\* given as the position of the next one
RECURSIVE SentimentLoop(_, _, _, _, _)
SentimentLoop(results, i, details, total_score, valid_articles_count) ==
    IF i > Len(results)
    THEN [details |-> details, total |-> total_score, count |-> valid_articles_count]
    ELSE LET analyzed == [article |-> i,
                          sentiment |-> results[i].sentiment,
                          numeric |-> results[i].numeric,
                          sentiment_score |-> results[i].score]
         IN  IF IsValidArticle(results[i])
             THEN SentimentLoop(results, i + 1, Append(details, analyzed),
                                total_score + results[i].score,
                                valid_articles_count + 1)
             ELSE SentimentLoop(results, i + 1, Append(details, analyzed),
                                total_score, valid_articles_count)

\* perform_sentiment_analysis_for_articles, startup_analyzer.py:205-238, for
\* articles 1 .. Len(results) whose sentiment results are `results`; the
\* average is in hundredths
perform_sentiment_analysis_for_articles(results) ==
    LET done == SentimentLoop(results, 1, <<>>, 0, 0)
        average == IF done.count > 0 THEN Round2(done.total, done.count) ELSE 0
    IN  [detailed_articles |-> done.details,
         overall_calculated_sentiment |->
            IF done.count > 0 /\ average > 20 THEN "Positive"
            ELSE IF done.count > 0 /\ average < -20 THEN "Negative"
            ELSE "Neutral",
         average_sentiment_score |-> average,
         analyzed_article_count |-> done.count]

ApplySentimentAnalysis ==
    /\ probe = NoProbe
    /\ \E results \in UNION { [1 .. n -> SentimentResults] : n \in 0 .. MaxArticles } :
         probe' = [fn |-> "perform_sentiment_analysis_for_articles",
                   results |-> results,
                   result |-> perform_sentiment_analysis_for_articles(results)]
    /\ UNCHANGED <<pc, output, visited, queue, page_count, fetched, slept,
                   oracle_calls, returned, last, oracle_raised, retryVars,
                   mainVars, appVars, analyzerVars>>

SentimentSpec == Init /\ [][ApplySentimentAnalysis]_vars

\* ------------------------------------------------------------------------
\* startup_analyzer.py: analyze_startup, called again and again

\* the argument startup_info_json: text that is not JSON, a JSON array,
\* number or null, an object without "name", an object whose name is "",
\* and an object with the name "A"
StartupInputs == { "not_json", "J_array", "J_number", "J_null", "J_emptyobj",
                   "J_nameEmpty", "J_nameA" }

InputType(d) == IF d = "J_nameEmpty" THEN "dict" ELSE DocType(d)

\* the truthy values json.loads may give _call_gemini_with_prompt: the
\* object the prompt asks for, an object without the expected keys, an
\* array and a number
StageDocs == { "J_expected", "J_nameA", "J_array", "J_number" }

StageDocType(d) == IF d = "J_expected" THEN "dict" ELSE DocType(d)

\* how a call of _call_gemini_with_prompt ends: with a truthy parsed value,
\* with a response that is not parsed, or with the exception of the last
\* attempt
CallOutcomes ==
    { [kind |-> "parsed", doc |-> d, reason |-> ""] : d \in StageDocs }
    \cup { [kind |-> "fallback", doc |-> "none", reason |-> r] :
             r \in {ParseFailedReason} \cup { UnexpectedReason(exc) : exc \in Exceptions } }

\* _get_reason_field(fallback_dict, reason_text), startup_analyzer.py:134-139
ReasonUpdate(fallback_dict, reason_text) ==
    IF "reasoning" \in DOMAIN fallback_dict THEN [k \in {"reasoning"} |-> reason_text]
    ELSE IF "reason" \in DOMAIN fallback_dict THEN [k \in {"reason"} |-> reason_text]
    ELSE IF "overall_news_summary" \in DOMAIN fallback_dict
    THEN [k \in {"overall_news_summary"} |-> reason_text]
    ELSE NoDict

DocValue(d) == [kind |-> "doc", doc |-> d, dict |-> NoDict]
DictValue(d) == [kind |-> "dict", doc |-> "none", dict |-> d]

\* _call_gemini_with_prompt(prompt, fb.copy()), startup_analyzer.py:113-132,
\* ending as o: the heap after it and the value it returns
_call_gemini_with_prompt(h, fb, o) ==
    LET copied == CopyDict(h, "error_fallback", fb)
        merged == Merge(copied["error_fallback"],
                        ReasonUpdate(copied["error_fallback"], o.reason))
    IN  IF o.kind = "parsed"
        THEN [heap |-> copied, value |-> DocValue(o.doc)]
        ELSE [heap |-> [copied EXCEPT !["returned_fallback"] = merged],
              value |-> DictValue(merged)]

\* type(v) is dict
IsDictValue(v) == v.kind = "dict" \/ (v.kind = "doc" /\ StageDocType(v.doc) = "dict")

\* `key in v` raises a TypeError
InRaises(v) == v.kind = "doc" /\ StageDocType(v.doc) = "int"

\* all of keys are in the dictionary v
HasKeys(v, keys) ==
    IF v.kind = "dict" THEN keys \subseteq DOMAIN v.dict ELSE v.doc = "J_expected"

\* an article by the length of "Title: ...\nSnippet: ...": under 20
\* characters or not
ArticleKinds == { "short", "long" }

\* base_result, startup_analyzer.py:246-251
base_result ==
    [k \in { "overall_news_sentiment", "average_sentiment_score",
             "analyzed_article_count", "detailed_articles_for_reference" } |-> "computed"]

\* analyze_startup is called, startup_analyzer.py:381-391: the input is
\* decoded and the name is looked up
AnalyzeStartup ==
    /\ apc \in { "idle", "returned", "raised" }
    /\ \E input \in StartupInputs :
         /\ startup_info' = input
         /\ IF input = "not_json"
            THEN /\ apc' = "returned"
                 /\ analysis' = [kind |-> "error", keys |-> {"error"}]
            ELSE IF InputType(input) # "dict"
            THEN /\ apc' = "raised"
                 /\ analysis' = [kind |-> "none"]
            ELSE IF input # "J_nameA"
            THEN /\ apc' = "returned"
                 /\ analysis' = [kind |-> "error", keys |-> {"error"}]
            ELSE /\ apc' = "search"
                 /\ analysis' = [kind |-> "none"]
    /\ events' = <<>>
    /\ raw_news_articles' = <<>>
    /\ analyzed_count' = 0
    /\ stage_results' = NoStageResults
    /\ heap' = [id \in DOMAIN heap |-> IF id \in TempIds THEN NoDict ELSE heap[id]]
    /\ UNCHANGED <<pc, output, visited, queue, page_count, fetched, slept,
                   oracle_calls, returned, last, oracle_raised, probe, retryVars,
                   mainVars, appVars>>

\* search_news_mentions, startup_analyzer.py:154-175: the articles found, none
\* when the search raises
SearchNews ==
    /\ apc = "search"
    /\ events' = Append(events, "search")
    /\ \E found \in UNION { [1 .. n -> ArticleKinds] : n \in 0 .. MaxArticles } :
         /\ raw_news_articles' = found
         /\ apc' = IF found = <<>> THEN "summary" ELSE "sentiment"
    /\ UNCHANGED <<startup_info, analyzed_count, stage_results, analysis, heap>>
    /\ UNCHANGED <<pc, output, visited, queue, page_count, fetched, slept,
                   oracle_calls, returned, last, oracle_raised, probe, retryVars,
                   mainVars, appVars>>

\* one iteration of the loop of perform_sentiment_analysis_for_articles,
\* startup_analyzer.py:211-222, with analyze_article_sentiment_with_gemini,
\* 177-203: a value that is not a dictionary raises at line 196 or 199
AnalyzeArticle ==
    /\ apc = "sentiment"
    /\ analyzed_count < Len(raw_news_articles)
    /\ analyzed_count' = analyzed_count + 1
    /\ IF raw_news_articles[analyzed_count + 1] = "short"
       THEN /\ events' = Append(events, "sentiment")
            /\ apc' = IF analyzed_count + 1 = Len(raw_news_articles)
                      THEN "summary" ELSE "sentiment"
            /\ heap' = heap
       ELSE /\ events' = events \o <<"sentiment", "oracle">>
            /\ \E o \in CallOutcomes :
                 LET call == _call_gemini_with_prompt(heap, "DEFAULT_SENTIMENT_ERROR", o)
                 IN  /\ heap' = call.heap
                     /\ apc' = IF ~IsDictValue(call.value) THEN "raised"
                               ELSE IF analyzed_count + 1 = Len(raw_news_articles)
                               THEN "summary" ELSE "sentiment"
    /\ UNCHANGED <<startup_info, raw_news_articles, stage_results, analysis>>
    /\ UNCHANGED <<pc, output, visited, queue, page_count, fetched, slept,
                   oracle_calls, returned, last, oracle_raised, probe, retryVars,
                   mainVars, appVars>>

\* mutant of FinalSummaryFallback: final_summary is the module-level
\* dictionary itself (no .copy())
FinalSummaryFallback_NoCopy(h) ==
    [heap |-> h, id |-> "DEFAULT_NEWS_SUMMARY_FALLBACK"]

\* final_summary = DEFAULT_NEWS_SUMMARY_FALLBACK.copy(), startup_analyzer.py:291
FinalSummaryFallback(h) ==
    [heap |-> CopyDict(h, "final_summary", "DEFAULT_NEWS_SUMMARY_FALLBACK"),
     id |-> "final_summary"]

\* startup_analyzer.py:289-296: the answer lacks a key
MissingKeysSummary(h, summary_data) ==
    LET final_summary == FinalSummaryFallback(h)
        text == IF HasKeys(summary_data, {"overall_news_summary"})
                THEN summary_data.dict["overall_news_summary"]
                ELSE "Summary not generated or keys missing."
        headlines == IF HasKeys(summary_data, {"prominent_headlines"})
                     THEN summary_data.dict["prominent_headlines"]
                     ELSE "[]"
    IN  SetItem(SetItem(final_summary.heap, final_summary.id,
                        "overall_news_summary", text),
                final_summary.id, "prominent_headlines", headlines)

\* summarize_news_and_extract_headlines_with_gemini, startup_analyzer.py:
\* 240-301
Summarize ==
    /\ apc = "summary"
    /\ IF raw_news_articles = <<>>
       THEN /\ events' = Append(events, "summary")
            /\ heap' = heap
            /\ stage_results' =
                  [stage_results EXCEPT !["summary"] =
                      DictValue(Merge(SetItem(heap, "DEFAULT_NEWS_SUMMARY_FALLBACK",
                                              "overall_news_summary",
                                              "No news articles found or provided for summary.")
                                          ["DEFAULT_NEWS_SUMMARY_FALLBACK"],
                                      base_result))]
            /\ apc' = "categorize"
       ELSE /\ events' = events \o <<"summary", "oracle">>
            /\ \E o \in CallOutcomes :
                 LET call == _call_gemini_with_prompt(heap, "DEFAULT_NEWS_SUMMARY_FALLBACK", o)
                     summary_data == call.value
                     filled == MissingKeysSummary(call.heap, summary_data)
                 IN  IF ~IsDictValue(summary_data)
                     THEN /\ apc' = "raised"
                          /\ stage_results' = stage_results
                          /\ heap' = IF InRaises(summary_data) THEN call.heap
                                     ELSE SetItem(FinalSummaryFallback(call.heap).heap,
                                                  FinalSummaryFallback(call.heap).id,
                                                  "overall_news_summary",
                                                  "Summary not generated or keys missing.")
                     ELSE IF HasKeys(summary_data, {"overall_news_summary",
                                                    "prominent_headlines"})
                     THEN /\ apc' = "categorize"
                          /\ heap' = call.heap
                          /\ stage_results' =
                                [stage_results EXCEPT !["summary"] =
                                    IF summary_data.kind = "dict"
                                    THEN DictValue(Merge(summary_data.dict, base_result))
                                    ELSE summary_data]
                     ELSE /\ apc' = "categorize"
                          /\ heap' = filled
                          /\ stage_results' =
                                [stage_results EXCEPT !["summary"] =
                                    DictValue(Merge(filled[FinalSummaryFallback(call.heap).id],
                                                    base_result))]
    /\ UNCHANGED <<startup_info, raw_news_articles, analyzed_count, analysis>>
    /\ UNCHANGED <<pc, output, visited, queue, page_count, fetched, slept,
                   oracle_calls, returned, last, oracle_raised, probe, retryVars,
                   mainVars, appVars>>

\* categorize_startup_with_gemini, startup_analyzer.py:304-332: the value is
\* returned as it is unless `in` raises on it (line 330)
Categorize ==
    /\ apc = "categorize"
    /\ events' = events \o <<"categorization", "oracle">>
    /\ \E o \in CallOutcomes :
         LET call == _call_gemini_with_prompt(heap, "DEFAULT_CATEGORIZATION_ERROR", o)
         IN  /\ heap' = call.heap
             /\ IF InRaises(call.value)
                THEN apc' = "raised" /\ stage_results' = stage_results
                ELSE /\ apc' = "growth"
                     /\ stage_results' = [stage_results EXCEPT !["categorization"] = call.value]
    /\ UNCHANGED <<startup_info, raw_news_articles, analyzed_count, analysis>>
    /\ UNCHANGED <<pc, output, visited, queue, page_count, fetched, slept,
                   oracle_calls, returned, last, oracle_raised, probe, retryVars,
                   mainVars, appVars>>

\* the keys of output_data, startup_analyzer.py:411-417
DocumentKeys == { "startup_info_processed", "news_analysis_and_summary",
                  "automated_categorization", "predictive_growth_analytics",
                  "analysis_timestamp" }

\* predict_growth_based_on_news_with_gemini, startup_analyzer.py:334-378, and
\* the end of analyze_startup, 411-420: categorization.get raises (line 348)
\* before the oracle is called when the categorization is not a dictionary
PredictGrowth ==
    /\ apc = "growth"
    /\ IF ~IsDictValue(stage_results["categorization"])
       THEN /\ events' = Append(events, "growth")
            /\ apc' = "raised"
            /\ UNCHANGED <<stage_results, analysis, heap>>
       ELSE /\ events' = events \o <<"growth", "oracle">>
            /\ \E o \in CallOutcomes :
                 LET call == _call_gemini_with_prompt(heap, "DEFAULT_GROWTH_PREDICTION_ERROR", o)
                 IN  /\ heap' = call.heap
                     /\ IF InRaises(call.value)
                        THEN /\ apc' = "raised"
                             /\ UNCHANGED <<stage_results, analysis>>
                        ELSE /\ apc' = "returned"
                             /\ stage_results' = [stage_results EXCEPT !["growth"] = call.value]
                             /\ analysis' = [kind |-> "document", keys |-> DocumentKeys]
    /\ UNCHANGED <<startup_info, raw_news_articles, analyzed_count>>
    /\ UNCHANGED <<pc, output, visited, queue, page_count, fetched, slept,
                   oracle_calls, returned, last, oracle_raised, probe, retryVars,
                   mainVars, appVars>>

AnalyzerNext ==
    \/ AnalyzeStartup
    \/ SearchNews
    \/ AnalyzeArticle
    \/ Summarize
    \/ Categorize
    \/ PredictGrowth

AnalyzerSpec == Init /\ [][AnalyzerNext]_vars

\* ========================================================================
\* Properties
\* ========================================================================

\* a value the specification counts as empty: null, "" and []
SpecEmpty(v) == v \in {JNull, JEmptyStr, JEmptyList}

\* C1: under FairSpec every crawl, whatever the fetches and the oracle do,
\* reaches its return; there the accumulated output is what is returned and
\* the loop has ended because the output is complete, the frontier is empty
\* or the page budget is reached.
C1_CrawlTerminates ==
    <>(/\ pc = "done"
       /\ returned = output
       /\ \/ is_output_complete(output)
          \/ queue = <<>>
          \/ page_count >= MAX_PAGES)

\* a crawl that returned a partial output after failed fetches and pages
\* whose oracle answer added nothing
C1_Witness ==
    /\ pc = "done"
    /\ Len(fetched) > page_count
    /\ page_count >= 2
    /\ returned = EmptyDict

\* C2 (as claimed): a merge never changes a field that holds a value other
\* than null, "" and [].
C2_FirstNonEmptyWins ==
    [][\A k \in DOMAIN output :
          ~SpecEmpty(output[k]) => (k \in DOMAIN output' /\ output'[k] = output[k])]_vars

\* C3 (as claimed): is_output_complete is true exactly when every required
\* field is present with a value other than null, "" and [].
C3_CompleteIffAllNonEmpty ==
    is_output_complete(output)
        <=> (\A key \in REQUIRED_FIELDS : key \in DOMAIN output /\ ~SpecEmpty(output[key]))

\* every field named in the prompt holds a non-empty value
PromptSatisfied(out) ==
    \A k \in PromptFields : k \in DOMAIN out /\ Truthy(out[k])

\* C4 (as claimed): once the accumulated output holds a non-empty value for
\* every field of the prompted schema, the crawl's next step is its return:
\* no further entry is dequeued and no further page is fetched.
C4_EarlyTermination ==
    [][(pc = "loop" /\ PromptSatisfied(output))
          => (pc' = "done" /\ fetched' = fetched /\ queue' = queue)]_vars

\* C5: once is_output_complete is true the only step the loop takes is the
\* return: nothing more is dequeued, fetched or sent to the oracle, and the
\* links already enqueued stay in the frontier.
C5_CompletenessGate ==
    [][(pc = "loop" /\ is_output_complete(output))
          => (/\ pc' = "done"
              /\ queue' = queue
              /\ fetched' = fetched
              /\ oracle_calls' = oracle_calls
              /\ visited' = visited)]_vars

\* the crawl returned a complete output with links of the completing page
\* still queued and budget left
C5_Witness ==
    /\ pc = "done"
    /\ is_output_complete(returned)
    /\ queue # <<>>
    /\ page_count < MAX_PAGES

\* C6: no URL is handed to scrape_page twice.
C6_NoUrlFetchedTwice ==
    \A i, j \in 1 .. Len(fetched) : i # j => fetched[i].url # fetched[j].url

\* the frontier holds an entry for a URL that was already fetched (a URL
\* that was queued twice, or a link back into a cycle)
C6_Witness ==
    /\ pc = "loop"
    /\ \E i \in 1 .. Len(queue) : queue[i].url \in visited
    /\ Len(fetched) >= 3

\* C7: the seed is fetched first at depth 0, the depths in the frontier and
\* the depths of the fetched pages are non-decreasing, and a step of the loop
\* removes the head and appends at the tail only entries one level below it.
C7_BreadthFirst ==
    /\ [](/\ \A i, j \in 1 .. Len(queue) : i < j => queue[i].depth <= queue[j].depth
          /\ \A i, j \in 1 .. Len(fetched) : i < j => fetched[i].depth <= fetched[j].depth
          /\ fetched # <<>> => fetched[1] = Entry(Seed, 0))
    /\ [][pc = "loop" /\ pc' = "loop" /\ queue' # queue
            => /\ Len(queue') >= Len(queue) - 1
               /\ SubSeq(queue', 1, Len(queue) - 1) = Tail(queue)
               /\ \A i \in Len(queue) .. Len(queue') :
                     queue'[i].depth = Head(queue).depth + 1]_vars

\* pages of three levels were fetched and the frontier holds two levels
C7_Witness ==
    /\ Len(fetched) >= 3
    /\ fetched[Len(fetched)].depth >= 2
    /\ \E i, j \in 1 .. Len(queue) : queue[i].depth < queue[j].depth

\* the URLs known to be reachable from the seed within the depth budget
WithinDepth ==
    visited \cup { queue[i].url : i \in { n \in 1 .. Len(queue) : queue[n].depth <= MAX_DEPTH } }

\* C8: page_count never exceeds MAX_PAGES; a crawl in which every fetch
\* succeeded, the schema was never satisfied and at least MAX_PAGES pages
\* are reachable within the depth budget returns after exactly MAX_PAGES
\* pages.
C8_BudgetTermination ==
    /\ page_count <= MAX_PAGES
    /\ (/\ pc = "done"
        /\ Len(fetched) = page_count
        /\ ~is_output_complete(output)
        /\ Cardinality(WithinDepth) >= MAX_PAGES)
          => page_count = MAX_PAGES

\* the budget ended a crawl whose fetches all succeeded, with pages left
C8_Witness ==
    /\ pc = "done"
    /\ page_count = MAX_PAGES
    /\ Len(fetched) = page_count
    /\ ~is_output_complete(output)
    /\ Cardinality(WithinDepth) > MAX_PAGES

\* C9 (as claimed): the number of fetch attempts of a crawl never exceeds
\* MAX_PAGES.
C9_FetchAttemptsWithinBudget == Len(fetched) <= MAX_PAGES

\* C10 (as claimed): a fetch attempt that follows another one is preceded by
\* a politeness delay.
C10_DelayBetweenFetches ==
    [][(fetched' # fetched /\ fetched # <<>>) => slept]_vars

\* the frontier's head is an entry the claim says is skipped
HeadIsSkippable ==
    /\ pc = "loop"
    /\ queue # <<>> /\ page_count < MAX_PAGES /\ ~is_output_complete(output)
    /\ (Head(queue).depth > MAX_DEPTH \/ Head(queue).url \in visited)

\* C11: no entry deeper than MAX_DEPTH is fetched or marked visited, and an
\* entry that is too deep or already visited is removed from the frontier
\* with no fetch and no change of the page count or of the visited set.
C11_DepthBudget ==
    /\ [](/\ \A i \in 1 .. Len(fetched) : fetched[i].depth <= MAX_DEPTH
          /\ pc = "loop" => visited = { fetched[i].url : i \in 1 .. Len(fetched) })
    /\ [][HeadIsSkippable
            => /\ queue' = Tail(queue)
               /\ fetched' = fetched
               /\ visited' = visited
               /\ page_count' = page_count]_vars

\* an entry below the depth budget was skipped, with page budget left
C11_Witness ==
    /\ last = "skip_depth"
    /\ page_count < MAX_PAGES
    /\ \A i \in 1 .. Len(fetched) : fetched[i].depth <= MAX_DEPTH

\* C12: no URL in the frontier, in visited or handed to scrape_page has a
\* non-empty host other than the host of the seed URL: a link to another
\* host is never enqueued or fetched, although every page that is processed
\* carries one.
C12_ScopeRestriction ==
    LET inScope(u) == get_domain(PageUrls[u]) \in { "", get_domain(StartUrl) }
    IN  /\ \A i \in 1 .. Len(queue) : inScope(queue[i].url)
        /\ \A i \in 1 .. Len(fetched) : inScope(fetched[i].url)
        /\ \A u \in visited : inScope(u)

\* the crawl ended with an empty frontier after processing the seed and one
\* linked page, both of which carried the link to the other host
C12_Witness ==
    /\ pc = "done"
    /\ page_count = 2
    /\ Len(fetched) = 2
    /\ visited = {Seed, 1}
    /\ queue = <<>>
    /\ get_domain(OffSiteHref) # get_domain(StartUrl)

\* C13: is_internal_link(link, domain) is true exactly when the host of link
\* is empty or equals domain.
C13_InternalLinkContract ==
    probe.fn = "is_internal_link"
        => (probe.result <=> (probe.link.netloc = "" \/ probe.link.netloc = probe.domain))

\* a mailto link, which has no host, is internal to the seed's domain
C13_Witness ==
    /\ probe.fn = "is_internal_link"
    /\ probe.link.scheme = "mailto"
    /\ probe.link.netloc = ""
    /\ probe.domain = SeedHost
    /\ probe.result

\* the spellings of a denylist pattern that occur in the URL texts
DeniedWords == BAD_PATTERNS \cup { "UTM_", "PAGE=", "Calendar" }

\* the URL text has a denylist pattern in it, in some spelling
HasDeniedWord(u) ==
    \/ \E i \in 1 .. Len(u.tail) : u.tail[i] \in DeniedWords
    \/ u.netloc \in DeniedWords
    \/ u.scheme \in DeniedWords

\* C14: is_valid_url is false exactly for the URLs that hold a denylist
\* pattern in any spelling, the query string included; the links
\* extract_links returns are the normalized hrefs without such a pattern (and
\* internal to the domain), so a denied href adds nothing to them.
C14_Denylist ==
    /\ probe.fn = "is_valid_url" => (probe.result <=> ~HasDeniedWord(probe.url))
    /\ probe.fn = "extract_links" =>
          { probe.result[i] : i \in 1 .. Len(probe.result) }
            = { normalize_url(probe.hrefs[i]) :
                  i \in { j \in 1 .. Len(probe.hrefs) :
                            /\ ~HasDeniedWord(probe.hrefs[j])
                            /\ probe.hrefs[j].netloc \in {"", probe.domain} } }

\* a page whose two hrefs are one denied by an upper-case pattern in its
\* query string and one allowed: only the allowed one is returned
C14_Witness ==
    /\ probe.fn = "extract_links"
    /\ probe.domain = SeedHost
    /\ probe.hrefs = <<DeniedHref, Url("https", SeedHost, <<SLASH, "2", HASH, "a">>)>>
    /\ probe.result = <<Url("https", SeedHost, <<SLASH, "2">>)>>

\* C15 (as claimed): normalize_url applied to its own result returns that
\* result, and the result has no query, no fragment and no trailing slash.
C15_NormalizeIdempotent ==
    /\ [](probe.fn = "normalize_url" =>
            /\ \A i \in 1 .. Len(probe.result.tail) :
                  probe.result.tail[i] \notin {QMARK, HASH}
            /\ probe.result.tail # <<>> =>
                  probe.result.tail[Len(probe.result.tail)] # SLASH)
    /\ [][(probe.fn = "normalize_url" /\ probe'.fn = "normalize_url"
             /\ probe'.url = probe.result)
          => probe'.result = probe.result]_vars

\* C16 (as claimed): an answer that wraps the JSON object j in a json fence
\* or a bare fence, with or without prose around the block, is merged as the
\* answer j alone is.
C16_FenceTolerance ==
    probe.fn = "update_output" =>
        \A j \in ObjectDocs :
            probe.text \in FenceWrappings(j) => output = update_output(probe.before, <<j>>)

\* the text is one JSON object, alone or with a json fence marker before it,
\* a fence marker after it, or both
ObjectAfterCleaning(text) ==
    \E j \in ObjectDocs :
        NoWs(text) \in { <<j>>, <<FENCE_JSON, j>>, <<j, FENCE>>, <<FENCE_JSON, j, FENCE>> }

\* the text is one JSON document, or one between an opening and a closing fence
ValidOrFencedJson(text) ==
    \E j \in JsonDocs :
        NoWs(text) \in { <<j>>, <<FENCE_JSON, j, FENCE>>, <<FENCE, j, FENCE>> }

C18_OnlySchemaFields ==
    DOMAIN output \subseteq (PromptFields \cup REQUIRED_FIELDS)

\* C19: the oracle is called once in every iteration that fetched a page with
\* content and in no other step (an entry skipped, a fetch without content,
\* the return), so the number of calls equals the number of pages processed.
C19_OneOracleCallPerPage ==
    /\ [](oracle_calls = page_count)
    /\ [][/\ (last' = "page" /\ fetched' # fetched) => oracle_calls' = oracle_calls + 1
          /\ oracle_calls' # oracle_calls =>
                /\ oracle_calls' = oracle_calls + 1
                /\ last' = "page"
                /\ Len(fetched') = Len(fetched) + 1]_vars

\* a crawl that processed two pages, had fetches without content and has
\* just skipped an entry: two oracle calls
C19_Witness ==
    /\ last = "skip_visited"
    /\ oracle_calls = 2
    /\ page_count = 2
    /\ Len(fetched) > 2

\* the value is a dictionary: a fallback, or a decoded JSON object
IsDict(r) ==
    \/ r.kind = "fallback"
    \/ r.kind = "parsed" /\ r.doc \in {"J_nameA", "J_emptyobj"}

\* C20 (as claimed): one call makes at most three attempts and none after an
\* attempt that returned; an exception leaves the retry wrapper only at the
\* third failure and is that attempt's exception; the call always ends by
\* returning, and what it returns is a dictionary.
C20_BoundedRetry ==
    /\ [](/\ attempts <= 3
          /\ Len(excs) <= attempts
          /\ (propagated # "none") =>
                (attempts = 3 /\ Len(excs) = 3 /\ propagated = excs[3])
          /\ (rpc = "returned") => IsDict(retry_result))
    /\ [][(rpc \in {"responded", "returned", "reraised"} \/ Len(excs) < attempts)
            => (attempts' = attempts)]_vars

\* the field of each fallback that carries the error explanation
ExplanationField(fb) ==
    CASE fb = "DEFAULT_SENTIMENT_ERROR" -> "reasoning"
      [] fb = "DEFAULT_CATEGORIZATION_ERROR" -> "reason"
      [] fb = "DEFAULT_NEWS_SUMMARY_FALLBACK" -> "overall_news_summary"
      [] OTHER -> "overall_outlook_summary_based_on_news"

\* C21 (as claimed): a call that ends with a response it cannot parse, or
\* with every attempt failed, returns its fallback with the reason of the
\* failure in the fallback's explanation field and every other field as the
\* fallback has it.
C21_FallbackWithReason ==
    (rpc = "returned" /\ retry_result.kind = "fallback") =>
        LET fb == FallbackDict(error_fallback)
            value == retry_result.value
            field == ExplanationField(error_fallback)
        IN  /\ DOMAIN value = DOMAIN fb
            /\ value[field] = IF propagated = "none" THEN ParseFailedReason
                              ELSE UnexpectedReason(propagated)
            /\ \A k \in DOMAIN fb \ {field} : value[k] = fb[k]

\* C22: the file holds one line for every seed whose crawl has ended, in seed
\* order; a line is appended only when a crawl has returned, it is that
\* crawl's output whatever it holds, it is written before the next crawl
\* starts, and the lines before it stay as they are.
C22_RecordSink ==
    /\ [](/\ Len(file) = seed_index - 1
          /\ pc = "main" => (Len(file) = 0 \/ file[Len(file)] = returned))
    /\ [][/\ file' # file => (/\ pc = "done" /\ pc' = "main"
                              /\ file' = Append(file, output))
          /\ pc = "done" => (Len(file') = Len(file) + 1 /\ seed_index' = seed_index + 1)
          /\ (pc = "main" /\ pc' = "loop") => Len(file) = seed_index - 1]_vars

\* both seeds are done: the first crawl ended empty-handed, the second with a
\* complete output, and each has its line
C22_Witness ==
    /\ pc = "main"
    /\ seed_index = Len(start_urls) + 1
    /\ Len(file) = 2
    /\ file[1] = EmptyDict
    /\ is_output_complete(file[2])

\* C23: a call of crawl_until_complete starts with an empty output, an empty
\* visited set and a frontier of its own seed; until the crawl has processed
\* a page its output is empty, the output changes only by merging an answer
\* given for a page of this crawl, and what earlier crawls returned stays as
\* it was.
C23_SessionIsolation ==
    /\ []((pc = "loop" /\ page_count = 0) => output = EmptyDict)
    /\ [][/\ (pc = "main" /\ pc' = "loop") =>
                /\ output' = EmptyDict
                /\ visited' = {}
                /\ queue' = <<Entry(IdOf(normalize_url(start_urls[seed_index])), 0)>>
          /\ output' # output =>
                \/ pc = "main"
                \/ /\ page_count' = page_count + 1
                   /\ \E t \in CrawlResponseTexts : output' = update_output(output, t)
          /\ \A i \in 1 .. Len(file) : Len(file') >= i /\ file'[i] = file[i]]_vars

\* the first crawl returned a complete output; the second crawl, of the same
\* site, fetched the seed again, got nothing from the oracle and returned an
\* empty output
C23_Witness ==
    /\ pc = "done"
    /\ seed_index = 2
    /\ is_output_complete(file[1])
    /\ Len(fetched) >= 1 /\ fetched[1].url = Seed
    /\ page_count >= 1
    /\ returned = EmptyDict

\* C24: during a crawl the visited set never loses a URL; it gains the URL of
\* the entry at the head of the frontier exactly in the step that dequeues
\* that entry without skipping it, which is the step that fetches it; and it
\* always is the set of URLs a fetch was attempted for.
C24_VisitedGrows ==
    /\ [](pc \in {"loop", "done"} => visited = { fetched[i].url : i \in 1 .. Len(fetched) })
    /\ [][pc = "loop" =>
            /\ visited \subseteq visited'
            /\ visited' # visited =>
                  /\ queue # <<>>
                  /\ Head(queue).url \notin visited /\ Head(queue).depth <= MAX_DEPTH
                  /\ visited' = visited \cup {Head(queue).url}
                  /\ fetched' = Append(fetched, Head(queue))
                  /\ queue' # queue
            /\ (/\ pc' = "loop" /\ queue # <<>>
                /\ Head(queue).url \notin visited /\ Head(queue).depth <= MAX_DEPTH)
                   => visited' = visited \cup {Head(queue).url}]_vars

\* three URLs visited, one of them by a fetch that gave no content
C24_Witness ==
    /\ pc = "loop"
    /\ Cardinality(visited) = 3
    /\ Len(fetched) = 3
    /\ page_count = 2
    /\ last = "no_content"

\* C25: a fetch that gives no content (an exception, a timeout, a response
\* that is not HTML) adds no entry to the frontier, calls no oracle and
\* leaves the output and the page count as they were; the crawl stays in its
\* loop, and its next step takes the next entry of the frontier, or returns
\* when there is none.
C25_FetchFailureRecoverable ==
    [][/\ (last' = "no_content" /\ fetched' # fetched) =>
             /\ pc' = "loop"
             /\ queue' = Tail(queue)
             /\ oracle_calls' = oracle_calls
             /\ output' = output
             /\ page_count' = page_count
       /\ (last = "no_content" /\ pc = "loop") =>
             IF queue = <<>>
             THEN pc' = "done" /\ returned' = output
             ELSE /\ pc' = "loop"
                  /\ Len(queue') >= Len(queue) - 1
                  /\ SubSeq(queue', 1, Len(queue) - 1) = Tail(queue)]_vars

\* the seed gave content, the next fetch gave none, and the entry after it
\* was fetched and processed
C25_Witness ==
    /\ last = "page"
    /\ Len(fetched) = 3
    /\ page_count = 2
    /\ oracle_calls = 2
    /\ queue # <<>>

\* C26: a page whose oracle call raised leaves the output as it was, counts
\* as processed, and has the entries for its links appended to the frontier
\* behind the entries that were waiting; the crawl stays in its loop.
C26_OracleFailureRecoverable ==
    [][(oracle_calls' = oracle_calls + 1 /\ oracle_raised') =>
          /\ output' = output
          /\ page_count' = page_count + 1
          /\ pc' = "loop"
          /\ \E links \in LinkLists, more \in OptionalHrefs(Head(queue).url) :
                queue' = Tail(queue)
                         \o NewEntries(PageLinks(Head(queue).url, links, more),
                                       visited', Head(queue).depth)]_vars

\* the oracle call for the seed page raised: the output is empty, the page
\* is counted and its two links wait in the frontier
C26_Witness ==
    /\ pc = "loop"
    /\ oracle_raised
    /\ page_count = 1
    /\ output = EmptyDict
    /\ Len(queue) = 2
    /\ \A i \in 1 .. Len(queue) : queue[i].depth = 1

\* C27 (as claimed): two crawls of one seed against one site, with the same
\* anchors in the same document order on every page and the same oracle
\* answers, fetch the same sequence of URLs and return the same output.
C27_DeterministicOrder ==
    (probe.fn = "crawl_until_complete" /\ probe.again) =>
        (/\ probe.second.fetched = probe.first.fetched
         /\ probe.second.output = probe.first.output)

\* the URLs that a chain of at most k links reaches from the seed, every
\* page of the chain but the last being in `through`
RECURSIVE Within(_, _, _)
Within(k, through, anchors) ==
    IF k = 0 THEN {Seed}
    ELSE LET near == Within(k - 1, through, anchors)
         IN  near \cup UNION { anchors[p] : p \in near \cap through }

\* the length of the shortest such chain to u
ShortestChain(u, through, anchors) ==
    CHOOSE k \in 0 .. Cardinality(TwinPages) :
        /\ u \in Within(k, through, anchors)
        /\ \A j \in 0 .. (k - 1) : u \notin Within(j, through, anchors)

\* C28: the depth of the entry that causes a fetch is the length of the
\* shortest chain of links from the seed to its URL through the pages that
\* were fetched with content before it.
C28_MinimumDepth ==
    probe.fn = "crawl_until_complete" =>
        LET f == probe.first.fetched
        IN  \A i \in 1 .. Len(f) :
                LET before == { f[j].url : j \in 1 .. (i - 1) } \ probe.site.dead
                IN  /\ f[i].url \in Within(Cardinality(TwinPages), before, probe.site.anchors)
                    /\ f[i].depth = ShortestChain(f[i].url, before, probe.site.anchors)

\* page 2 is linked from the seed and from page 1, which is fetched before
\* it: it is fetched at depth 1, not 2
C28_Witness ==
    /\ probe.fn = "crawl_until_complete"
    /\ probe.site.dead = {}
    /\ probe.site.anchors[Seed] = {1, 2}
    /\ probe.site.anchors[1] = {2}
    /\ probe.links[Seed] = <<1, 2>>
    /\ probe.first.fetched = <<Entry(Seed, 0), Entry(1, 1), Entry(2, 1)>>

\* C29: every URL handed to scrape_page has the host of the seed URL,
\* whatever anchors the pages carry, mailto: links included.
C29_FetchedOnSeedHost ==
    \A i \in 1 .. Len(fetched) :
        get_domain(PageUrls[fetched[i].url]) = get_domain(StartUrl)

\* C30: on one site with one link order per page and an oracle that never
\* completes the output, crawl_domain and crawl_until_complete hand the same
\* sequence of URLs to scrape_page and sleep as often, whether or not some
\* fetches give no content.
C30_SameTraversal ==
    probe.fn = "crawl_domain" =>
        /\ probe.domain.fetched = probe.until.fetched
        /\ probe.domain.sleeps = probe.until.sleeps

\* C34: once every POST /apply request has ended, the data file holds the
\* companies it held before, followed by one entry for each request that
\* ended with the redirect, and nothing else.
C34_NoLostSubmission ==
    (\A r \in Requests : handler[r] \in { "redirected", "failed" }) =>
        LET done == { r \in Requests : handler[r] = "redirected" }
            held == data_file.companies
        IN  /\ data_file.valid
            /\ Len(held) = Len(InitialCompanies) + Cardinality(done)
            /\ SubSeq(held, 1, Len(InitialCompanies)) = InitialCompanies
            /\ \A r \in done : \E i \in 1 .. Len(held) : held[i] = new_company(r)

\* the articles that count: label other than "Error" and a numeric score
ValidArticles(results) ==
    { i \in 1 .. Len(results) : results[i].sentiment # "Error" /\ results[i].numeric }

\* the sum of the scores of a set of articles, in thousandths
RECURSIVE ScoreSum(_, _)
ScoreSum(results, articles) ==
    IF articles = {} THEN 0
    ELSE LET i == CHOOSE x \in articles : TRUE
         IN  results[i].score + ScoreSum(results, articles \ {i})

\* one detailed entry per article, in input order, carrying its sentiment
OneEntryPerArticle ==
    LET details == probe.result.detailed_articles
    IN  /\ Len(details) = Len(probe.results)
        /\ \A i \in 1 .. Len(details) :
              /\ details[i].article = i
              /\ details[i].sentiment = probe.results[i].sentiment
              /\ details[i].sentiment_score = probe.results[i].score

BadInput == startup_info \in StartupInputs \ {"J_nameA"}

\* C31: for an input that is not JSON, or not an object with a non-empty
\* name, analyze_startup returns an object with the key "error", does not
\* raise, and makes no news search and no oracle call.
C31_RejectsBadInput ==
    (BadInput /\ apc \in { "returned", "raised" }) =>
        /\ apc = "returned"
        /\ analysis.kind = "error"
        /\ "error" \in analysis.keys
        /\ events = <<>>

\* the order of the stages: the search, the articles one by one, the
\* summary, the categorization, the growth prediction
StagesInOrder ==
    LET stages == SelectSeq(events, LAMBDA ev : ev # "oracle")
    IN  stages = <<"search">> \o [i \in 1 .. Len(raw_news_articles) |-> "sentiment"]
                 \o <<"summary", "categorization", "growth">>

\* C32: for an object with a non-empty name analyze_startup does not raise,
\* whatever the search and the oracle do, and when it has ended it has run
\* its stages in order and returned a document with the five keys.
C32_AlwaysReturnsDocument ==
    startup_info = "J_nameA" =>
        /\ apc # "raised"
        /\ apc = "returned" =>
              /\ StagesInOrder
              /\ analysis.kind = "document"
              /\ analysis.keys = DocumentKeys

\* the reasons one call of _call_gemini_with_prompt may write
CallReasons == {ParseFailedReason} \cup { UnexpectedReason(exc) : exc \in Exceptions }

\* a fallback returned by a stage is the module-level dictionary as loaded,
\* but for the reason of its own call in its reason field
FreshFallback(value, fb, reason_key) ==
    value.kind = "dict" =>
        /\ DOMAIN value.dict = DOMAIN InitialHeap[fb]
        /\ \A k \in DOMAIN value.dict :
              IF k = reason_key THEN value.dict[k] \in CallReasons
              ELSE value.dict[k] = InitialHeap[fb][k]

\* C35: the four module-level fallback dictionaries and the lists they hold
\* are as they were when the module was loaded, whatever calls have been
\* made, and the fallbacks a call returns carry no text of an earlier call.
C35_FallbacksUnchanged ==
    /\ \A id \in Fallbacks \cup ListIds : heap[id] = InitialHeap[id]
    /\ FreshFallback(stage_results["categorization"], "DEFAULT_CATEGORIZATION_ERROR", "reason")
    /\ FreshFallback(stage_results["growth"], "DEFAULT_GROWTH_PREDICTION_ERROR", "none")

\* a call has ended after the summary stage wrote its own text into its copy
\* of the news-summary fallback, and a categorization fallback carrying a
\* failure reason was returned
C35_Witness ==
    /\ apc = "returned"
    /\ analysis.kind = "document"
    /\ heap["final_summary"] # NoDict
    /\ heap["final_summary"]["overall_news_summary"] = "Summary not generated or keys missing."
    /\ stage_results["categorization"].kind = "dict"
    /\ stage_results["categorization"].dict["reason"] = ParseFailedReason


====
